---- MODULE Spec2Model ----
(***************************************************************************)
(* Verification model of the meh-synth core: the lock-free SPSC event      *)
(* queue, the engine's event dispatch and the voice pool.                  *)
(***************************************************************************)
EXTENDS Integers, Naturals, Sequences, FiniteSets, TLC

(***************************************************************************)
(* Bounds of the model (not program constants).                            *)
(***************************************************************************)
\* Accepted pushes beyond one full queue in the queue specifications: a run
\* accepts at most SIZE + ExtraPush events, enough to fill the queue (255
\* unconsumed events) and to wrap both indices past 255.
ExtraPush == 2

\* Capacity of the voice pool (MAX_VOICES; the spec allows any fixed capacity).
MAX_VOICES == 2

\* Envelope stage lengths in samples, and the longest audio block in frames.
AttackSamples == 1
DecaySamples == 1
ReleaseSamples == 2
MaxFrames == 2

\* Events the input thread publishes in one run of the engine specification.
MaxEvents == 3

\* Parameter events handed to the engine in one run of the parameter
\* specification.
MaxParamEvents == 1

(***************************************************************************)
(* ParamEventQueue  (libs/synth_io/src/ParamEventQueue.h / .cpp)           *)
(***************************************************************************)
SIZE == 256
WRAP == SIZE - 1

\* Bitwise AND of two naturals, as the C++ operator & computes it.
RECURSIVE BitAnd(_, _)
BitAnd(a, b) ==
  IF a = 0 \/ b = 0 THEN 0
  ELSE (a % 2) * (b % 2) + 2 * BitAnd(a \div 2, b \div 2)

\* (currentIndex + 1) & WRAP
NextIndex(i) == BitAnd(i + 1, WRAP)

\* Mutations of the full test: one slot too early, and never full.
IsFullEarly(nextIndex, r) == BitAnd(nextIndex + 1, WRAP) = r
IsFullNever(nextIndex, r) == FALSE

\* push: if (nextIndex == readIndex.load()) return false;
IsFull(nextIndex, r) == nextIndex = r

\* Mutations of the empty test: compares the slot after currentIndex, and
\* never empty.
IsEmptyOffByOne(currentIndex, w) == BitAnd(currentIndex + 1, WRAP) = w
IsEmptyNever(currentIndex, w) == FALSE

\* pop: if (currentIndex == writeIndex.load()) return false;
IsEmpty(currentIndex, w) == currentIndex = w

\* The two event queues between the input thread and the audio thread.
Queues == {"param", "note"}

\* A default-constructed event slot (Events.h: id = 0, value = 0.0f).
DefaultEvent == [id |-> 0, value |-> 0]

\* A default-constructed NoteEvent (Events.h: NoteOff, midiNote 0, velocity 0).
DefaultNoteEvent == [type |-> "NoteOff", midiNote |-> 0, velocity |-> 0]

DefaultSlot(q) == IF q = "param" THEN DefaultEvent ELSE DefaultNoteEvent

\* The n-th event the producer of the queue specifications offers: events are
\* pairwise distinct and differ from the default slot content; id is a uint8.
EventOf(n) == [id |-> (n + 1) % 256, value |-> (n + 1) \div 256]

VARIABLES
  queue,        \* queue[q]: the slots of queue q that have been written
  readIndex,    \* readIndex[q]
  writeIndex,   \* writeIndex[q]
  pushRet,      \* return value of the last completed push
  popRet,       \* return value of the last completed pop
  popOut,       \* the event the last successful pop copied out
  lastCall,     \* "none", "push" or "pop": the call that completed last
  accepted,     \* history: accepted[q] = events of the successful pushes
  delivered,    \* history: delivered[q] = events of the successful pops
  ppc,          \* producer position inside push: "idle", "copy", "store"
  pcur,         \* producer local currentIndex
  pev,          \* producer argument event
  cpc,          \* consumer position inside pop: "idle", "copy", "store"
  ccur          \* consumer local currentIndex

(***************************************************************************)
(* Engine, voice pool and audio session state.                             *)
(***************************************************************************)
VARIABLES
  voicePool,     \* voicePool[i]: voice i of the engine's pool
  noteCount,     \* Engine::noteCount
  introduced,    \* how many notes of NotePool the input has played so far
  param,         \* param[id]: engine field bound to parameter id
  apc,           \* audio callback position: "idle", "drain", "block"
  drainOrder,    \* the order in which the callback drains the two queues
  drainIdx,      \* index into drainOrder of the queue being drained
  drained,       \* events popped from the current queue in this callback
  startAccepted, \* history: pushes completed per queue when the callback began
  publishLog,    \* history: queue names in the order of completed pushes
  appliedLog,    \* history: queue names in the order of applied events
  applied        \* history: applied[q] = events the engine handlers received

(***************************************************************************)
(* State of the components that are checked on their own.                  *)
(***************************************************************************)
VARIABLES
  envelope,      \* an Envelope
  envOut,        \* the amplitude the last getNextSample returned
  envLast,       \* "none", "trigger" or "release": the last call but samples
  envSince,      \* samples produced since that call
  envCalls,      \* trigger and release calls so far
  matrix,        \* a ModMatrix: count and routes
  modCall,       \* the last route operation: name, argument, return value
  modOps,        \* route operations so far, by kind
  modDest,       \* a ModMatrix: destValues, prevDestValues, destStepValues
  modBlk,        \* the block under way: position, length, frame, history
  wtPhase,       \* the fixed-point phase of a wavetable oscillator voice
  wtRead,        \* the last readTable: phase, indices read, fraction
  osc,           \* an oscillator voice: start phase, increment, advances
  bankReg,       \* the two bank registries: count and slots
  bankHeap,      \* allocations made by createWavetableBank
  bankCall,      \* the last bank call, its argument and result; call counts
  filt,          \* a filter: settings, cached coefficients, voice states
  filtCall,      \* the last filter call: arguments, value returned, count
  audioOut,      \* the output buffer of the last audio block, per channel
  midiIO,        \* the last MIDI packet, the events decoded, the events pushed
  shut,          \* main's position, the running sessions, the shutdown log
  envSet,        \* an Envelope under its setters: fields, last call, calls
  mipRead,       \* the last readWavetable: arguments, tables indexed
  midiSrc,       \* a MidiSession's connected sources, writes outside them
  keys           \* the computer keyboard: octave offset, held keys, pushes

qvars == <<queue, readIndex, writeIndex, pushRet, popRet, popOut, lastCall,
           accepted, delivered>>
tvars == <<ppc, pcur, pev, cpc, ccur>>
pvars == <<voicePool, noteCount, param>>
ivars == <<introduced>>
svars == <<apc, drainOrder, drainIdx, drained, startAccepted, publishLog,
           appliedLog, applied>>
evars == <<envelope, envOut, envLast, envSince, envCalls>>
mvars == <<matrix, modCall, modOps>>
dvars == <<modDest, modBlk>>
wvars == <<wtPhase, wtRead>>
ovars == <<osc>>
bvars == <<bankReg, bankHeap, bankCall>>
fvars == <<filt, filtCall>>
avars == <<audioOut>>
\* The separately checked components, without the audio output.
kvars == <<midiIO>>
hvars == <<shut>>
yvars == <<envSet, mipRead, midiSrc, keys>>
nonAudioVars == <<evars, mvars, dvars, wvars, ovars, bvars, fvars, kvars, hvars, yvars>>
xvars == <<ovars, bvars, fvars, avars, kvars, hvars, yvars>>
cvars == <<evars, mvars, dvars, wvars, xvars>>
\* Everything outside the event queue.
nonQueueVars == <<pvars, ivars, svars, cvars>>
vars == <<qvars, tvars, pvars, ivars, svars, cvars>>

QInit ==
  /\ queue = [q \in Queues |-> <<>>]
  /\ readIndex = [q \in Queues |-> 0]
  /\ writeIndex = [q \in Queues |-> 0]
  /\ pushRet = FALSE
  /\ popRet = FALSE
  /\ popOut = DefaultEvent
  /\ lastCall = "none"
  /\ accepted = [q \in Queues |-> <<>>]
  /\ delivered = [q \in Queues |-> <<>>]

TInit ==
  /\ ppc = "idle"
  /\ pcur = 0
  /\ pev = DefaultEvent
  /\ cpc = "idle"
  /\ ccur = 0

\* queue[i] of queue q: the array is default-constructed, so a slot that was
\* never written holds the default event.
Slot(q, i) == IF i \in DOMAIN queue[q] THEN queue[q][i] ELSE DefaultSlot(q)

\* queue[i] = event
StoreSlot(q, i, event) == [queue EXCEPT ![q] = (i :> event) @@ @]

\* Events pushed and not yet popped.
Unconsumed(q) == Len(accepted[q]) - Len(delivered[q])

\* ParamEventQueue::push as one call.
push(q, event) ==
  LET currentIndex == writeIndex[q]
      nextIndex == NextIndex(currentIndex)
  IN /\ lastCall' = "push"
     /\ IF IsFull(nextIndex, readIndex[q])
        THEN /\ pushRet' = FALSE
             /\ UNCHANGED <<queue, writeIndex, accepted>>
        ELSE /\ queue' = StoreSlot(q, currentIndex, event)
             /\ writeIndex' = [writeIndex EXCEPT ![q] = nextIndex]
             /\ pushRet' = TRUE
             /\ accepted' = [accepted EXCEPT ![q] = Append(@, event)]
     /\ UNCHANGED <<readIndex, popRet, popOut, delivered>>

\* ParamEventQueue::pop as one call.
pop(q) ==
  LET currentIndex == readIndex[q]
  IN /\ lastCall' = "pop"
     /\ IF IsEmpty(currentIndex, writeIndex[q])
        THEN /\ popRet' = FALSE
             /\ UNCHANGED <<readIndex, popOut, delivered>>
        ELSE /\ popOut' = Slot(q, currentIndex)
             /\ readIndex' = [readIndex EXCEPT ![q] = NextIndex(currentIndex)]
             /\ popRet' = TRUE
             /\ delivered' = [delivered EXCEPT ![q] = Append(@, Slot(q, currentIndex))]
     /\ UNCHANGED <<queue, writeIndex, pushRet, accepted>>

(***************************************************************************)
(* Envelope  (src/synth/Envelope.cpp): state and samples-in-state.         *)
(***************************************************************************)
\* Amplitudes are exact fractions <<numerator, denominator>> in lowest terms
\* with a positive denominator.
RECURSIVE GCD(_, _)
GCD(a, b) == IF b = 0 THEN a ELSE GCD(b, a % b)

Abs(x) == IF x < 0 THEN 0 - x ELSE x

Frac(n, d) ==
  LET g == GCD(Abs(n), d) IN IF n = 0 THEN <<0, 1>> ELSE <<n \div g, d \div g>>

FracZero == <<0, 1>>
FracOne == <<1, 1>>
FracSub(x, y) == Frac(x[1] * y[2] - y[1] * x[2], x[2] * y[2])
FracAdd(x, y) == Frac(x[1] * y[2] + y[1] * x[2], x[2] * y[2])
FracMul(x, y) == Frac(x[1] * y[1], x[2] * y[2])
FracLeq(x, y) == x[1] * y[2] <= y[1] * x[2]

\* Envelope::Envelope with the stage lengths in samples: the envelope starts
\* in Idle.
Envelope(attackSamples, decaySamples, sustainLevel, releaseSamples) ==
  [state |-> "Idle", samples |-> 0, attackSamples |-> attackSamples,
   decaySamples |-> decaySamples, sustainLevel |-> sustainLevel,
   releaseSamples |-> releaseSamples, releaseStartLevel |-> FracZero]

\* setSustain(0.7f) of the constructor.
SustainLevel == Frac(7, 10)

\* The envelope of a voice of the pool.  No operation of the pool reads a
\* voice's amplitude, so the pool's envelopes do not carry the release start
\* level.
IdleEnvelope ==
  [state |-> "Idle", samples |-> 0, attackSamples |-> AttackSamples,
   decaySamples |-> DecaySamples, sustainLevel |-> SustainLevel,
   releaseSamples |-> ReleaseSamples]

\* Envelope::calculateAttack
calculateAttack(env) ==
  IF env.attackSamples = 0 THEN FracOne
  ELSE Frac(env.samples, env.attackSamples)

\* Envelope::calculateDecay
calculateDecay(env) ==
  IF env.decaySamples = 0 THEN FracOne
  ELSE LET progress == Frac(env.samples, env.decaySamples)
           decayRange == FracSub(FracOne, env.sustainLevel)
       IN FracSub(FracOne, FracMul(progress, decayRange))

\* A release whose zero-length stage outputs the release start level.
calculateReleaseFromStart(env) ==
  IF env.releaseSamples = 0 THEN env.releaseStartLevel
  ELSE LET progress == Frac(env.samples, env.releaseSamples)
       IN FracMul(env.releaseStartLevel, FracSub(FracOne, progress))

\* Envelope::calculateRelease
calculateRelease(env) ==
  IF env.releaseSamples = 0 THEN FracOne
  ELSE LET progress == Frac(env.samples, env.releaseSamples)
       IN FracMul(env.releaseStartLevel, FracSub(FracOne, progress))

\* Envelope::getCurrentAmplitude; it is also the amplitude getNextSample
\* returns, which is computed before the sample is counted.
getCurrentAmplitude(env) ==
  CASE env.state = "Attack" -> calculateAttack(env)
    [] env.state = "Decay" -> calculateDecay(env)
    [] env.state = "Sustain" -> env.sustainLevel
    [] env.state = "Release" -> calculateRelease(env)
    [] env.state = "Idle" -> FracZero

\* A trigger that leaves the envelope as it is.
triggerNothing(env) == env

\* Envelope::trigger
trigger(env) == [env EXCEPT !.samples = 0, !.state = "Attack"]

\* Envelope::release, state and sample count.
releaseStage(env) == [env EXCEPT !.state = "Release", !.samples = 0]

\* Envelope::release
release(env) ==
  [releaseStage(env) EXCEPT !.releaseStartLevel = getCurrentAmplitude(env)]

\* A stage that is left one sample late.
StageStepLate(env, stageSamples, nextState) ==
  IF env.samples + 1 > stageSamples
  THEN [env EXCEPT !.state = nextState, !.samples = 0]
  ELSE [env EXCEPT !.samples = env.samples + 1]

\* One stage of Envelope::getNextSample: count the sample and move to the
\* next state when the stage length is reached.
StageStep(env, stageSamples, nextState) ==
  IF env.samples + 1 >= stageSamples
  THEN [env EXCEPT !.state = nextState, !.samples = 0]
  ELSE [env EXCEPT !.samples = env.samples + 1]

\* Envelope::getNextSample (state effect).
getNextSample(env) ==
  CASE env.state = "Attack" -> StageStep(env, env.attackSamples, "Decay")
    [] env.state = "Decay" -> StageStep(env, env.decaySamples, "Sustain")
    [] env.state = "Sustain" -> env
    [] env.state = "Release" -> StageStep(env, env.releaseSamples, "Idle")
    [] env.state = "Idle" -> env

\* An envelope that is never done.
isDoneNever(env) == FALSE

\* Envelope::isDone
isDone(env) == env.state = "Idle"

(***************************************************************************)
(* Parameter ids  (src/synth/ParamBindings.h).                             *)
(***************************************************************************)
OSC1_OCTAVE_OFFSET == 3
MASTER_GAIN == 24
PARAM_COUNT == 25

\* The binding table's range of a bound id: waveform, mix level, detune
\* (cents), octave offset and enabled flag of the four oscillators, then the
\* envelope times (ms) and sustain level, then the master gain.
ParamRange(id) ==
  IF id < 20
  THEN CASE id % 5 = 0 -> [min |-> 0, max |-> 3]
         [] id % 5 = 2 -> [min |-> 0 - 100, max |-> 100]
         [] id % 5 = 3 -> [min |-> 0 - 2, max |-> 2]
         [] OTHER -> [min |-> 0, max |-> 1]
  ELSE IF id \in {20, 21, 23} THEN [min |-> 0, max |-> 10000]
  ELSE [min |-> 0, max |-> 1]

\* min + normalizedValue * (max - min)
denormalize(id, value) ==
  ParamRange(id).min + value * (ParamRange(id).max - ParamRange(id).min)

\* setParamValueByID with its valueFormat argument: an id outside the
\* binding table is ignored, a bound id writes the engine field, a
\* normalized value after denormalization.
setParamValueByIDFormat(p, id, value, valueFormat) ==
  IF id < PARAM_COUNT
  THEN [p EXCEPT ![id] = IF valueFormat = "NORMALIZED" THEN denormalize(id, value)
                         ELSE value]
  ELSE p

\* setParamValueByID as Engine::processParamEvent calls it: valueFormat is
\* left to its default, ParamValueFormat::DENORMALIZED.
setParamValueByID(p, id, value) ==
  setParamValueByIDFormat(p, id, value, "DENORMALIZED")

(***************************************************************************)
(* Voice pool.                                                             *)
(***************************************************************************)
VoiceIds == 1..MAX_VOICES

\* MIDI notes offered to the engine: MAX_VOICES + 1 distinct notes.
NotePool == <<60, 62, 64, 65, 67, 69, 71, 72, 74, 76>>
Notes == {NotePool[k] : k \in 1..(MAX_VOICES + 1)}

InactiveVoice ==
  [active |-> FALSE, releasing |-> FALSE, midiNote |-> 0, velocity |-> 0,
   age |-> 0, octave |-> 0, env |-> IdleEnvelope]

\* A stop test that also matches a voice already in its release.
shouldStopReleasing(v, midiNote) == v.active /\ v.midiNote = midiNote

\* Voice::shouldStop: the voice sounds midiNote and has not been released.
shouldStop(v, midiNote) == v.active /\ ~v.releasing /\ v.midiNote = midiNote

\* A note-on that keeps the age the voice had.
noteOnKeepAge(v, midiNote, velocity, noteIndex, octaveOffset) ==
  [active |-> TRUE, releasing |-> FALSE, midiNote |-> midiNote,
   velocity |-> velocity, age |-> v.age, octave |-> octaveOffset,
   env |-> trigger(v.env)]

\* Voice::noteOn with the engine's stamp: the voice takes the note, restarts
\* its oscillator from the engine's oscillator configuration and triggers
\* its envelope.
noteOn(v, midiNote, velocity, noteIndex, octaveOffset) ==
  [active |-> TRUE, releasing |-> FALSE, midiNote |-> midiNote,
   velocity |-> velocity, age |-> noteIndex, octave |-> octaveOffset,
   env |-> trigger(v.env)]

\* The voice of S with the smallest age.
Oldest(pool, S) == CHOOSE i \in S : \A j \in S : pool[i].age <= pool[j].age

\* The voices handleNoteOn may take for a note: the voice already sounding
\* it, else any inactive voice, else the oldest releasing voice, else the
\* oldest voice.
Held(pool, midiNote) == {i \in VoiceIds : shouldStop(pool[i], midiNote)}
Inactive(pool) == {i \in VoiceIds : ~pool[i].active}
Releasing(pool) == {i \in VoiceIds : pool[i].active /\ pool[i].releasing}

\* An allocation that never reuses the voice already sounding the note.
allocateNoReuse(pool, midiNote) ==
  IF Inactive(pool) # {} THEN Inactive(pool)
  ELSE IF Releasing(pool) # {} THEN {Oldest(pool, Releasing(pool))}
  ELSE {Oldest(pool, VoiceIds)}

allocate(pool, midiNote) ==
  IF Held(pool, midiNote) # {} THEN Held(pool, midiNote)
  ELSE IF Inactive(pool) # {} THEN Inactive(pool)
  ELSE IF Releasing(pool) # {} THEN {Oldest(pool, Releasing(pool))}
  ELSE {Oldest(pool, VoiceIds)}

\* voices::handleNoteOn: the pools that may result.
handleNoteOn(pool, midiNote, velocity, noteIndex, octaveOffset) ==
  {[pool EXCEPT ![i] = noteOn(pool[i], midiNote, velocity, noteIndex, octaveOffset)]
     : i \in allocate(pool, midiNote)}

\* voices::releaseVoice: every voice that should stop for the note enters
\* Release and is marked releasing.
releaseVoice(pool, midiNote) ==
  [i \in VoiceIds |->
     IF shouldStop(pool[i], midiNote)
     THEN [pool[i] EXCEPT !.env = releaseStage(pool[i].env), !.releasing = TRUE]
     ELSE pool[i]]

\* Voice::process (state effect): an active voice advances its envelope by
\* one sample and becomes inactive when the envelope is done.
process(v) ==
  IF ~v.active THEN v
  ELSE LET env == getNextSample(v.env)
       IN [v EXCEPT !.env = env, !.active = ~isDone(env)]

\* voices::processVoices: numFrames samples of every voice.
RECURSIVE processVoices(_, _)
processVoices(pool, numFrames) ==
  IF numFrames = 0 THEN pool
  ELSE processVoices([i \in VoiceIds |-> process(pool[i])], numFrames - 1)

(***************************************************************************)
(* Engine  (src/synth/Engine.cpp).                                         *)
(***************************************************************************)
PInit ==
  /\ introduced = 0
  /\ voicePool = [i \in VoiceIds |-> InactiveVoice]
  /\ noteCount = 0
  /\ param = [id \in 0..(PARAM_COUNT - 1) |-> 0]

\* A processParamEvent that folds an unknown id into the binding table.
processParamEventWrapped(event) ==
  /\ param' = setParamValueByID(param, event.id % PARAM_COUNT, event.value)
  /\ UNCHANGED <<voicePool, noteCount>>

\* Engine::processParamEvent
processParamEvent(event) ==
  /\ param' = setParamValueByID(param, event.id, event.value)
  /\ UNCHANGED <<voicePool, noteCount>>

\* A processNoteEvent that stamps every voice with the same age.
processNoteEventNoCount(event) ==
  IF event.midiNote = 0
  THEN UNCHANGED pvars
  ELSE IF event.type = "NoteOff"
  THEN /\ voicePool' = releaseVoice(voicePool, event.midiNote)
       /\ UNCHANGED <<noteCount, param>>
  ELSE /\ voicePool' \in handleNoteOn(voicePool, event.midiNote, event.velocity,
                                      0, param[OSC1_OCTAVE_OFFSET])
       /\ noteCount' = noteCount + 1
       /\ UNCHANGED param

\* A processNoteEvent whose stamps decrease from note-on to note-on.
processNoteEventDescending(event) ==
  IF event.midiNote = 0
  THEN UNCHANGED pvars
  ELSE IF event.type = "NoteOff"
  THEN /\ voicePool' = releaseVoice(voicePool, event.midiNote)
       /\ UNCHANGED <<noteCount, param>>
  ELSE /\ voicePool' \in handleNoteOn(voicePool, event.midiNote, event.velocity,
                                      100 - noteCount, param[OSC1_OCTAVE_OFFSET])
       /\ noteCount' = noteCount + 1
       /\ UNCHANGED param

\* A processNoteEvent without the test for note 0.
processNoteEventAnyNote(event) ==
  IF event.type = "NoteOff"
  THEN /\ voicePool' = releaseVoice(voicePool, event.midiNote)
       /\ UNCHANGED <<noteCount, param>>
  ELSE /\ voicePool' \in handleNoteOn(voicePool, event.midiNote, event.velocity,
                                      noteCount, param[OSC1_OCTAVE_OFFSET])
       /\ noteCount' = noteCount + 1
       /\ UNCHANGED param

\* Engine::processNoteEvent
processNoteEvent(event) ==
  IF event.midiNote = 0
  THEN UNCHANGED pvars
  ELSE IF event.type = "NoteOff"
  THEN /\ voicePool' = releaseVoice(voicePool, event.midiNote)
       /\ UNCHANGED <<noteCount, param>>
  ELSE /\ voicePool' \in handleNoteOn(voicePool, event.midiNote, event.velocity,
                                      noteCount, param[OSC1_OCTAVE_OFFSET])
       /\ noteCount' = noteCount + 1
       /\ UNCHANGED param

\* A voice adds a sample other than 0 to the scratch buffer when it is
\* active and past the first sample of a ramping attack, whose amplitude
\* is 0 (a releasing voice is taken to sound until its envelope is done).
sounding(v) ==
  /\ v.active
  /\ ~(v.env.state = "Attack" /\ v.env.samples = 0 /\ v.env.attackSamples > 0)

\* The scratch buffer voices::processVoices fills: a frame is 0 when no
\* voice sounds at that sample and 1, for the sum of the sounding voices'
\* samples, otherwise.
RECURSIVE poolBufferOf(_, _)
poolBufferOf(pool, numFrames) ==
  IF numFrames = 0 THEN <<>>
  ELSE <<IF \E i \in VoiceIds : sounding(pool[i]) THEN 1 ELSE 0>>
         \o poolBufferOf([i \in VoiceIds |-> process(pool[i])], numFrames - 1)

\* Output channels of the audio session.
NumChannels == 2

AInit == audioOut = [ch \in 1..NumChannels |-> <<>>]

\* Engine::processAudioBlock (state effect on the voices).
processAudioBlock(numFrames) ==
  /\ voicePool' = processVoices(voicePool, numFrames)
  /\ UNCHANGED <<noteCount, param>>

\* Engine::processAudioBlock (the caller's output buffer): every frame of
\* the scratch buffer is copied to every channel.
outputBufferOf(pool, numFrames) ==
  [ch \in 1..NumChannels |-> poolBufferOf(pool, numFrames)]

(***************************************************************************)
(* The audio session: the input thread publishes events, the audio         *)
(* callback drains both queues and then generates one block.               *)
(***************************************************************************)
\* The session drains one queue after the other; either order is possible.
DrainOrders == {<<"param", "note">>, <<"note", "param">>}

SInit(orders) ==
  /\ apc = "idle"
  /\ drainOrder \in orders
  /\ drainIdx = 1
  /\ drained = 0
  /\ startAccepted = [q \in Queues |-> 0]
  /\ publishLog = <<>>
  /\ appliedLog = <<>>
  /\ applied = [q \in Queues |-> <<>>]

(***************************************************************************)
(* ModMatrix routes  (src/synth/ModMatrix.cpp).                            *)
(***************************************************************************)
\* Capacity of the route array.
MAX_MOD_ROUTES == 16

\* addRoute calls beyond a full matrix, and removeRoute and clearRoutes
\* calls, in one run of the route specification.
ExtraAdds == 1
MaxRemoves == 1
MaxClears == 1

\* Distinct amounts the added routes carry, in turn.
RouteKinds == 2

RouteIndices == 0..(MAX_MOD_ROUTES - 1)

\* {ModSrc::NoSrc, ModDest::NoDest, 0.0f}
NoRoute == [src |-> "NoSrc", dest |-> "NoDest", amount |-> 0]

\* The route of the n-th addRoute call of a run.
RouteOf(n) == [src |-> "LFO1", dest |-> "FilterCutoff", amount |-> 1 + (n % RouteKinds)]

\* removeRoute takes a uint8_t index: every index of the array, the first
\* two past it and the largest.
RemoveIndices == 0..(MAX_MOD_ROUTES + 1) \cup {255}

EmptyMatrix == [count |-> 0, routes |-> [k \in RouteIndices |-> NoRoute]]

\* An addRoute whose capacity test is off by one.
addRouteEarly(m, route) ==
  IF m.count >= MAX_MOD_ROUTES - 1
  THEN [ret |-> FALSE, matrix |-> m]
  ELSE [ret |-> TRUE,
        matrix |-> [count |-> m.count + 1,
                    routes |-> [m.routes EXCEPT ![m.count] = route]]]

\* addRoute: the return value and the matrix after the call.
addRoute(m, route) ==
  IF m.count >= MAX_MOD_ROUTES
  THEN [ret |-> FALSE, matrix |-> m]
  ELSE [ret |-> TRUE,
        matrix |-> [count |-> m.count + 1,
                    routes |-> [m.routes EXCEPT ![m.count] = route]]]

\* A removeRoute that closes the gap without moving the last route.
removeRouteNoSwap(m, index) ==
  IF index >= m.count \/ m.count < 1
  THEN [ret |-> FALSE, matrix |-> m]
  ELSE [ret |-> TRUE,
        matrix |-> [count |-> m.count - 1,
                    routes |-> [m.routes EXCEPT ![m.count - 1] = NoRoute]]]

\* removeRoute: the last route moves to index, its slot is cleared.
removeRoute(m, index) ==
  IF index >= m.count \/ m.count < 1
  THEN [ret |-> FALSE, matrix |-> m]
  ELSE LET count == m.count - 1
           moved == [m.routes EXCEPT ![index] = m.routes[count]]
       IN [ret |-> TRUE,
           matrix |-> [count |-> count,
                       routes |-> [moved EXCEPT ![count] = NoRoute]]]

\* A clearRoutes that resets the count and leaves the slots.
clearRoutesCountOnly(m) == [ret |-> TRUE, matrix |-> [m EXCEPT !.count = 0]]

\* clearRoutes
clearRoutes(m) == [ret |-> TRUE, matrix |-> EmptyMatrix]

MInit ==
  /\ matrix = EmptyMatrix
  /\ modCall = [op |-> "none", arg |-> 0, ret |-> FALSE]
  /\ modOps = [adds |-> 0, removes |-> 0, clears |-> 0]

(***************************************************************************)
(* ModMatrix destination values: per-block interpolation.                  *)
(***************************************************************************)
\* Audio blocks in one run of the interpolation specification.
MaxBlocks == 2

ModDests == {"FilterCutoff", "AmpLevel"}
\* The voices whose destination values are followed.
ModVoices == {0, 1}
Cells == ModDests \X ModVoices

\* Values the sum of a destination's routes takes in a block.
ModValues == {Frac(0 - 1, 2), FracOne}

\* clearModDestSteps
clearModDestSteps(d) == [d EXCEPT !.destStepValues = [c \in Cells |-> FracZero]]

\* A setModDestStep that forgets the block length.
setModDestStepUnscaled(d, c, invNumSamples) ==
  [d EXCEPT !.destStepValues[c] = FracSub(d.destValues[c], d.prevDestValues[c])]

\* setModDestStep
setModDestStep(d, c, invNumSamples) ==
  [d EXCEPT !.destStepValues[c] =
     FracMul(FracSub(d.destValues[c], d.prevDestValues[c]), invNumSamples)]

\* setModDestStep for every destination and voice of the cells in S.
RECURSIVE setModDestSteps(_, _, _)
setModDestSteps(d, S, invNumSamples) ==
  IF S = {} THEN d
  ELSE LET c == CHOOSE x \in S : TRUE
       IN setModDestSteps(setModDestStep(d, c, invNumSamples), S \ {c},
                          invNumSamples)

\* The modulated value of a cell at frame i of the block.
modValueAt(d, c, i) ==
  FracAdd(d.prevDestValues[c], FracMul(d.destStepValues[c], Frac(i, 1)))

DInit ==
  /\ modDest = [destValues |-> [c \in Cells |-> FracZero],
                prevDestValues |-> [c \in Cells |-> FracZero],
                destStepValues |-> [c \in Cells |-> FracZero]]
  /\ modBlk = [pc |-> "idle", numFrames |-> 0, frame |-> 0, blocks |-> 0,
               same |-> FALSE, out |-> [c \in Cells |-> FracZero]]

(***************************************************************************)
(* Wavetable lookup with a 32-bit fixed-point phase.  A uint32_t is a      *)
(* sequence of 32 bits, least significant first.                           *)
(***************************************************************************)
TABLE_SIZE == 2048
PHASE_SHIFT == 21
TABLE_MASK == TABLE_SIZE - 1
FRAC_MASK == 2 ^ PHASE_SHIFT - 1
WordBits == 32

\* The w low bits of the natural number n.
RECURSIVE ToBits(_, _)
ToBits(n, w) == IF w = 0 THEN <<>> ELSE <<n % 2>> \o ToBits(n \div 2, w - 1)

\* The number a bit sequence stands for.
RECURSIVE Value(_)
Value(b) == IF b = <<>> THEN 0
            ELSE IF \A i \in 1..Len(b) : b[i] = 0 THEN 0
            ELSE Head(b) + 2 * Value(Tail(b))

\* uint32_t >> n
ShiftRight(b, n) == [i \in 1..WordBits |-> IF i + n <= WordBits THEN b[i + n] ELSE 0]

\* uint32_t & uint32_t
BitAnd32(a, b) == [i \in 1..WordBits |-> a[i] * b[i]]

\* The bits of a + b + carry, as long as a; the last carry is lost.
RECURSIVE AddBits(_, _, _)
AddBits(a, b, carry) ==
  IF a = <<>> THEN <<>>
  ELSE LET sum == Head(a) + Head(b) + carry
       IN <<sum % 2>> \o AddBits(Tail(a), Tail(b), sum \div 2)

\* uint32_t + uint32_t: unsigned addition, the carry out of bit 32 is lost.
Add32(a, b) == AddBits(a, b, 0)

\* The phase with table position hi and fraction bits lo.
Phase(hi, lo) == ToBits(lo, PHASE_SHIFT) \o ToBits(hi, WordBits - PHASE_SHIFT)

\* A readTable that does not mask the second index.
readTableUnmasked(phase) ==
  LET iA == Value(ShiftRight(phase, PHASE_SHIFT))
      iB == iA + 1
      frac == Value(BitAnd32(phase, ToBits(FRAC_MASK, WordBits)))
  IN [phase |-> phase, iA |-> iA, iB |-> iB, frac |-> frac, reads |-> {iA, iB}]

\* readTable: the indices it reads and the numerator of the fraction
\* float(phase & FRAC_MASK) * FRAC_SCALE, whose denominator is 2^PHASE_SHIFT
\* (a 21-bit integer and a power of two are exact in float).
readTable(phase) ==
  LET iA == Value(ShiftRight(phase, PHASE_SHIFT))
      iB == BitAnd(iA + 1, TABLE_MASK)
      frac == Value(BitAnd32(phase, ToBits(FRAC_MASK, WordBits)))
  IN [phase |-> phase, iA |-> iA, iB |-> iB, frac |-> frac, reads |-> {iA, iB}]

NoRead == [phase |-> <<>>, iA |-> 0, iB |-> 0, frac |-> 0, reads |-> {}]

\* initOscillator: the phase of the voice starts at 0.
WInit ==
  /\ wtPhase = Phase(0, 0)
  /\ wtRead = NoRead

(***************************************************************************)
(* Fixed-point phase increment and per-sample phase advance.  A float      *)
(* increment is a dyadic fraction <<n, d>>, d a power of two.              *)
(***************************************************************************)
\* Per-sample advances in one run of the phase specification.
MaxAdvances == 3

\* The whole table positions and the scaled rest of inc * 2^PHASE_SHIFT,
\* which double(inc) / TABLE_SIZE * 4294967296.0 computes exactly.
IncPositions(inc) == inc[1] \div inc[2]
IncRestDivisor(inc) == IF inc[2] <= 2 ^ PHASE_SHIFT THEN 1 ELSE inc[2] \div 2 ^ PHASE_SHIFT
IncRestScaled(inc) ==
  IF inc[2] <= 2 ^ PHASE_SHIFT
  THEN (inc[1] % inc[2]) * (2 ^ PHASE_SHIFT \div inc[2])
  ELSE inc[1] % inc[2]

\* toFixedPhaseInc: static_cast<uint32_t> drops the fraction of the double.
\* A double of 2^32 or more is out of the range of uint32_t and the
\* conversion is undefined: the value wraps or saturates.
toFixedPhaseInc(inc) ==
  LET lo == IncRestScaled(inc) \div IncRestDivisor(inc)
  IN IF IncPositions(inc) < TABLE_SIZE
     THEN {Phase(IncPositions(inc), lo)}
     ELSE {Phase(IncPositions(inc) % TABLE_SIZE, lo), Phase(TABLE_MASK, FRAC_MASK)}

\* round(increment / TABLE_SIZE * 2^32) as <<table positions, fraction bits>>,
\* halves rounded up; the positions are TABLE_SIZE or more when the value
\* does not fit in 32 bits.
RoundedPhaseInc(inc) ==
  LET q == IncRestDivisor(inc)
      lo == (IncRestScaled(inc) + q \div 2) \div q
  IN IF lo = 2 ^ PHASE_SHIFT THEN <<IncPositions(inc) + 1, 0>>
     ELSE <<IncPositions(inc), lo>>

\* p + n * step modulo 2^32.
RECURSIVE AddTimes(_, _, _)
AddTimes(p, step, n) == IF n = 0 THEN p ELSE AddTimes(Add32(p, step), step, n - 1)

\* Float increments: 2^-22, 1 + 3 * 2^-23, 5/2, 1, 2047, 2047 + 1/2, 2048.
IncSamples == {<<1, 2 ^ 22>>, <<2 ^ 23 + 3, 2 ^ 23>>, <<5, 2>>, <<1, 1>>,
               <<TABLE_MASK, 1>>, <<2 * TABLE_MASK + 1, 2>>, <<TABLE_SIZE, 1>>}

\* Start phases.
StartPhases == {Phase(0, 0), Phase(0, FRAC_MASK), Phase(1, 1),
                Phase(TABLE_MASK, 0), Phase(TABLE_MASK, FRAC_MASK)}

OscOf(p0, inc, fixedInc) == [p0 |-> p0, inc |-> inc, fixedInc |-> fixedInc, n |-> 0]

\* initOscillator with an increment of one table position per sample.
OInit == osc = OscOf(Phase(0, 0), <<1, 1>>, Phase(1, 0))


(***************************************************************************)
(* Wavetable banks and the bank registries.                                *)
(***************************************************************************)
\* Registrations beyond a full registry, and createWavetableBank calls, in
\* one run of the bank specification.
ExtraRegisters == 1
MaxCreates == 2
MaxNullRegisters == 1
\* Different banks offered for registration.
BankKinds == 2

MAX_FRAMES == 256
MAX_REGISTRY_BANKS == 32

NullBank == [frameCount |-> 0, null |-> TRUE]
BankOf(frameCount) == [frameCount |-> frameCount, null |-> FALSE]

\* uint32_t frame counts that are tried.
FrameCountSamples == {0, 1, 2, 255, 256, 257, 512, 65536}

\* A createWavetableBank that refuses MAX_FRAMES frames.
createWavetableBankStrict(frameCount) ==
  IF frameCount = 0 \/ frameCount >= MAX_FRAMES
  THEN [ret |-> NullBank, allocations |-> 0]
  ELSE [ret |-> BankOf(frameCount), allocations |-> 2]

\* createWavetableBank: the bank returned and the number of allocations
\* (the bank and its frames).
createWavetableBank(frameCount) ==
  IF frameCount = 0 \/ frameCount > MAX_FRAMES
  THEN [ret |-> NullBank, allocations |-> 0]
  ELSE [ret |-> BankOf(frameCount), allocations |-> 2]

RegistrySlots == 0..(MAX_REGISTRY_BANKS - 1)

\* dsp::wavetable::registerBank.  The function returns void: ret is what
\* the caller gets back.
registerBank(reg, bank) ==
  IF bank.null THEN [ret |-> "void", registry |-> reg]
  ELSE IF reg.count >= MAX_REGISTRY_BANKS THEN [ret |-> "void", registry |-> reg]
  ELSE [ret |-> "void",
        registry |-> [reg EXCEPT !.count = reg.count + 1,
                                  !.slots[reg.count] = bank]]

\* synth::wavetable::banks::registerBank, which returns void as well.
banksRegisterBank(reg, bank) ==
  IF reg.count < MAX_REGISTRY_BANKS
  THEN [ret |-> "void",
        registry |-> [reg EXCEPT !.count = reg.count + 1,
                                  !.slots[reg.count] = bank]]
  ELSE [ret |-> "void", registry |-> reg]

\* The empty registry of one of the two implementations.
EmptyRegistry(impl) ==
  [impl |-> impl, count |-> 0, slots |-> [k \in RegistrySlots |-> NullBank]]

NoBankCall == [op |-> "none", frameCount |-> 0, bank |-> NullBank, ret |-> "void",
               creates |-> 0, registers |-> 0, nulls |-> 0]

BInit ==
  /\ bankReg = EmptyRegistry("dsp")
  /\ bankHeap = 0
  /\ bankCall = NoBankCall


(***************************************************************************)
(* State-variable and ladder filters.  Cutoffs are in thousandths of a Hz  *)
(* and resonance is in ten-thousandths, so that differences around 0.001   *)
(* exist.  A coefficient is known by the cutoff and resonance              *)
(* it was computed from; a voice's filter state by the number of samples   *)
(* put through it since it was last reset.                                 *)
(***************************************************************************)
\* Process calls in one run of the filter specification.
MaxFilterCalls == 2

SAMPLE_RATE == 48000
MinCutoff == 20
MaxCutoff == (SAMPLE_RATE * 45) \div 100

\* std::clamp
clamp(v, lo, hi) == IF v < lo THEN lo ELSE IF hi < v THEN hi ELSE v

\* A cutoff of n Hz.
Hz(n) == n * 1000

\* Modulated cutoffs: below the range, its ends, inside (the default, the
\* default + 0.001 Hz and + 0.002 Hz), and above it.
CutoffSamples ==
  {Hz(5), Hz(MinCutoff), Hz(1000), Hz(1000) + 1, Hz(1000) + 2, Hz(MaxCutoff), Hz(30000)}

\* Modulated resonances: 0.3, 0.5, 0.501 and 0.5011.
ResonanceSamples == {3000, 5000, 5010, 5011}
InputSamples == {1, 2}

\* computeSVFCoeffs: the coefficients for a cutoff and a resonance.
computeSVFCoeffs(cutoffHz, resonance) ==
  [cutoff |-> clamp(cutoffHz, Hz(MinCutoff), Hz(MaxCutoff)), resonance |-> resonance]

\* 2.0f * std::sin(PI_F * cutoffHz * invSampleRate)
ladderCoeff(cutoffHz) == [cutoff |-> cutoffHz, resonance |-> 0]

\* SVFilter{} and LadderFilter{} with their cached coefficients computed.
FilterOf(kind) ==
  IF kind = "svf"
  THEN [kind |-> "svf", enabled |-> FALSE, cutoff |-> Hz(1000), resonance |-> 5000,
        coeffs |-> computeSVFCoeffs(Hz(1000), 5000),
        voiceStates |-> [v \in ModVoices |-> 0]]
  ELSE [kind |-> "ladder", enabled |-> FALSE, cutoff |-> Hz(1000), resonance |-> 3000,
        coeffs |-> ladderCoeff(Hz(1000)),
        voiceStates |-> [v \in ModVoices |-> 0]]

\* enableSVFilter / enableLadderFilter
enableFilter(f, enable) ==
  [f EXCEPT !.enabled = enable,
            !.voiceStates = IF enable /\ ~f.enabled
                            THEN [v \in ModVoices |-> 0] ELSE @]

\* The result of a process call: the value returned, the coefficients the
\* sample was filtered with, and the filter after the call.
Bypassed(f, input) ==
  [out |-> [filtered |-> FALSE, input |-> input], used |-> f.coeffs, filter |-> f]
Filtered(f, input, voiceIndex, coeffs) ==
  [out |-> [filtered |-> TRUE, input |-> input], used |-> coeffs,
   filter |-> [f EXCEPT !.voiceStates[voiceIndex] = @ + 1]]

\* A process call without modulation that does not test enabled.
processFilterAlways(f, input, voiceIndex) ==
  Filtered(f, input, voiceIndex, f.coeffs)

\* processSVFilter / processLadderFilter without modulation values.
processFilter(f, input, voiceIndex) ==
  IF ~f.enabled THEN Bypassed(f, input)
  ELSE Filtered(f, input, voiceIndex, f.coeffs)

\* processSVFilter with modulation values.
processSVFilterMod(f, input, voiceIndex, cutoffHz, resonance) ==
  IF ~f.enabled THEN Bypassed(f, input)
  ELSE LET isModulated == \/ Abs(f.cutoff - cutoffHz) > 1
                          \/ Abs(f.resonance - resonance) > 10
           coeffs == IF isModulated THEN computeSVFCoeffs(cutoffHz, resonance)
                     ELSE f.coeffs
       IN Filtered(f, input, voiceIndex, coeffs)

\* processLadderFilter with modulation values.
processLadderFilterMod(f, input, voiceIndex, cutoffHz, resonance) ==
  IF ~f.enabled THEN Bypassed(f, input)
  ELSE LET coeff == IF Abs(f.cutoff - cutoffHz) > 1 THEN ladderCoeff(cutoffHz)
                    ELSE f.coeffs
       IN Filtered(f, input, voiceIndex, coeff)

FInit ==
  /\ filt = FilterOf("svf")
  /\ filtCall = [op |-> "none", input |-> 0, voice |-> 0, cutoffHz |-> 0,
                 resonance |-> 0, out |-> [filtered |-> FALSE, input |-> 0],
                 used |-> FilterOf("svf").coeffs, calls |-> 0]

(***************************************************************************)
(* MIDI input: parseAndDispatch (libs/device_io/src/MidiCapture.cpp) and   *)
(* midiCallback (libs/platform_io/src/KeyProcessor.cpp).                   *)
(***************************************************************************)
\* Longest MIDI packet, in bytes.
MaxPacketLen == 4

\* Bytes of a packet: data bytes 0, 60, 100; status bytes 0x80, 0x90, 0x91,
\* 0xB0, 0xC0; the real-time byte 0xF8.
ByteSamples == {0, 60, 100, 128, 144, 145, 176, 192, 248}

MidiEvent(type, status, data1, data2) ==
  [type |-> type, channel |-> BitAnd(status, 15), data1 |-> data1, data2 |-> data2]

\* A note-on decoding that keeps velocity 0 a note-on.
noteOnTypeAlways(data2) == "NoteOn"

\* Velocity 0 = Note Off (MIDI convention)
noteOnType(data2) == IF data2 > 0 THEN "NoteOn" ELSE "NoteOff"

\* The type of a three-byte and of a two-byte channel message.
Type3(messageType, data2) ==
  CASE messageType = 128 -> "NoteOff"
    [] messageType = 144 -> noteOnType(data2)
    [] messageType = 160 -> "Aftertouch"
    [] messageType = 176 -> "ControlChange"
    [] messageType = 224 -> "PitchBend"
Type2(messageType) ==
  IF messageType = 192 THEN "ProgramChange" ELSE "ChannelPressure"

\* parseAndDispatch: the events handed to the user callback, in order.
RECURSIVE parseAndDispatch(_)
parseAndDispatch(data) ==
  IF data = <<>> THEN <<>>
  ELSE LET status == Head(data)
           messageType == BitAnd(status, 240)
       IN IF status >= 248 THEN parseAndDispatch(Tail(data))
          ELSE IF messageType \in {128, 144, 160, 176, 224}
          THEN IF Len(data) < 3 THEN <<>>
               ELSE <<MidiEvent(Type3(messageType, data[3]), status, data[2], data[3])>>
                      \o parseAndDispatch(SubSeq(data, 4, Len(data)))
          ELSE IF messageType \in {192, 208}
          THEN IF Len(data) < 2 THEN <<>>
               ELSE <<MidiEvent(Type2(messageType), status, data[2], 0)>>
                      \o parseAndDispatch(SubSeq(data, 3, Len(data)))
          ELSE parseAndDispatch(Tail(data))

\* midiCallback for each dispatched event: the note events pushed to the
\* note queue, in order.
RECURSIVE midiCallback(_)
midiCallback(events) ==
  IF events = <<>> THEN <<>>
  ELSE LET midiEvent == Head(events)
       IN (IF midiEvent.type \in {"NoteOn", "NoteOff"}
           THEN <<[type |-> midiEvent.type, midiNote |-> midiEvent.data1,
                   velocity |-> midiEvent.data2]>>
           ELSE <<>>) \o midiCallback(Tail(events))

\* messageLength of a channel message; 0 stands for the default branch,
\* which skips one byte.
messageLength(messageType) ==
  IF messageType \in {128, 144, 160, 176, 224} THEN 3
  ELSE IF messageType \in {192, 208} THEN 2
  ELSE 0

\* A parser that never tests the bytes left against the message length.
truncatedNever(remaining, length) == FALSE

\* if (remaining < 3) return;  /  if (remaining < 2) return;
truncated(remaining, length) == remaining < length

\* The loop of parseAndDispatch, one record per iteration: the offset of
\* the status byte, the offsets read, the bytes consumed, whether the
\* iteration dispatched an event and whether it returned from the function.
RECURSIVE parseSteps(_, _)
parseSteps(data, offset) ==
  LET remaining == Len(data) - offset
  IN IF ~(remaining > 0) THEN <<>>
     ELSE LET status == data[offset + 1]
              length == messageLength(BitAnd(status, 240))
              skip == [offset |-> offset, status |-> status, reads |-> {offset},
                       consumed |-> 1, dispatched |-> FALSE, returned |-> FALSE]
          IN IF status >= 248 \/ length = 0
             THEN <<skip>> \o parseSteps(data, offset + 1)
             ELSE IF truncated(remaining, length)
             THEN <<[skip EXCEPT !.consumed = 0, !.returned = TRUE]>>
             ELSE <<[skip EXCEPT !.reads = offset..(offset + length - 1),
                                 !.consumed = length, !.dispatched = TRUE]>>
                    \o parseSteps(data, offset + length)

NoPacket ==
  [pending |-> <<>>, packet |-> <<>>, steps |-> <<>>, dispatched |-> <<>>,
   pushed |-> <<>>]
KInit == midiIO = NoPacket

(***************************************************************************)
(* Start-up and shutdown of main (src/main.cpp) around the blocking input  *)
(* capture (libs/platform_io/src/KeyProcessor.cpp).                        *)
(***************************************************************************)
\* Most audio callbacks and most input callbacks of one run.
MaxAudioCalls == 2
MaxInputCalls == 2

\* main before startSession; numMidiDevices decides whether a MIDI session
\* is set up.
ShutStart(hasMidi) ==
  [pc |-> "startSession", hasMidi |-> hasMidi, audioRunning |-> FALSE,
   keyCapture |-> FALSE, midiRunning |-> FALSE, engine |-> "alive",
   log |-> <<>>, audioCalls |-> 0, inputCalls |-> 0, midiIgnored |-> 0,
   late |-> FALSE]

HInit == shut = ShutStart(TRUE)

(***************************************************************************)
(* Envelope setters  (src/synth/Envelope.cpp).                             *)
(***************************************************************************)
\* Setter calls in one run.
MaxSetterCalls == 2

\* int is 32 bits wide.
INT_MAX == 2147483647
INT_MIN == 0 - INT_MAX - 1

\* Times in ms, sample rates in Hz (multiples of 1000) and sustain levels
\* offered to the setters.
MsSamples == {0 - 1, 0, 10, 100000000}
RateSamples == {0 - 1000, 0, 48000}
SustainSamples == {Frac(0 - 1, 2), FracZero, FracOne, Frac(3, 2)}

\* Envelope::convertMsToSamples: static_cast<int>((ms / 1000.f) * mSampleRate).
\* A product that does not fit an int makes the conversion undefined: the
\* builds in use produce INT_MIN or INT_MAX.
convertMsToSamples(env, ms) ==
  LET perMs == env.sampleRate \div 1000
  IN IF perMs = 0 \/ ms <= INT_MAX \div perMs THEN {ms * perMs}
     ELSE {INT_MIN, INT_MAX}

Threw(env) == {[threw |-> TRUE, env |-> env]}
Returned(envs) == {[threw |-> FALSE, env |-> e] : e \in envs}

\* Envelope::setAttack
setAttack(env, ms) ==
  IF ms < 0 THEN Threw(env)
  ELSE Returned({[env EXCEPT !.attackMs = ms, !.attackSamples = n] :
                   n \in convertMsToSamples(env, ms)})

\* Envelope::setDecay
setDecay(env, ms) ==
  IF ms < 0 THEN Threw(env)
  ELSE Returned({[env EXCEPT !.decayMs = ms, !.decaySamples = n] :
                   n \in convertMsToSamples(env, ms)})

\* Envelope::setSustain
setSustain(env, value) ==
  IF ~FracLeq(FracZero, value) \/ ~FracLeq(value, FracOne) THEN Threw(env)
  ELSE Returned({[env EXCEPT !.sustainLevel = value]})

\* Envelope::setRelease
setRelease(env, ms) ==
  IF ms < 0 THEN Threw(env)
  ELSE Returned({[env EXCEPT !.releaseMs = ms, !.releaseSamples = n] :
                   n \in convertMsToSamples(env, ms)})

\* Envelope::updateSampleCounts: the three time setters with the stored
\* times; a setter that throws ends the update.
updateSampleCounts(env) ==
  UNION {IF a.threw THEN {a}
         ELSE UNION {IF d.threw THEN {d} ELSE setRelease(d.env, d.env.releaseMs) :
                       d \in setDecay(a.env, a.env.decayMs)} :
           a \in setAttack(env, env.attackMs)}

\* Envelope::setSampleRate
setSampleRate(env, sampleRate) ==
  IF sampleRate < 0 THEN Threw(env)
  ELSE updateSampleCounts([env EXCEPT !.sampleRate = sampleRate])

\* Envelope::Envelope(48000): 10 ms attack, 100 ms decay, sustain 0.7,
\* 200 ms release.
ConstructedEnvelope(state) ==
  [attackMs |-> 10, decayMs |-> 100, sustainLevel |-> SustainLevel,
   releaseMs |-> 200, sampleRate |-> SAMPLE_RATE, attackSamples |-> 480,
   decaySamples |-> 4800, releaseSamples |-> 9600, state |-> state,
   samples |-> 0]

NoSetterCall == [op |-> "none", ms |-> 0, level |-> FracZero, threw |-> FALSE]
SetInit == envSet = [env |-> ConstructedEnvelope("Idle"), call |-> NoSetterCall, calls |-> 0]

(***************************************************************************)
(* Mip and frame selection of the wavetable oscillator                     *)
(* (src/synth/WavetableOsc.cpp).  A phase increment is a positive float    *)
(* 2^exp * (1 + mant / 4); exp = 128 stands for the bit patterns of        *)
(* infinity and NaN.  Mip levels are in millionths.                        *)
(***************************************************************************)
MAX_MIP_LEVELS == 11

\* The largest exponent of a finite phase increment offered, and the number
\* of steps the scan positions 0..1 are divided into.
MaxIncExponent == 11
ScanSteps == 4

IncExponents == (0 - 1)..MaxIncExponent \cup {128}
PhaseIncrements == [exp : IncExponents, mant : 0..3]
BankFrameCounts == {1, 2, 3, MAX_FRAMES}

\* dsp::math::fastLog2: the float's bits as an integer, times 2^-23, minus
\* 126.94269504.
fastLog2(val) ==
  (val.exp + 127) * 1000000 + val.mant * 250000 - 126942695

\* A mip selection clamped to the last level.
selectMipLevelLast(phaseIncrement) ==
  IF phaseIncrement.exp < 0 \/ (phaseIncrement.exp = 0 /\ phaseIncrement.mant = 0)
  THEN 0
  ELSE clamp(fastLog2(phaseIncrement), 0, (MAX_MIP_LEVELS - 1) * 1000000)

\* selectMipLevel
selectMipLevel(phaseIncrement) ==
  IF phaseIncrement.exp < 0 \/ (phaseIncrement.exp = 0 /\ phaseIncrement.mant = 0)
  THEN 0
  ELSE clamp(fastLog2(phaseIncrement), 0, (MAX_MIP_LEVELS - 2) * 1000000)

Min(a, b) == IF a < b THEN a ELSE b

\* readWavetable: the mip levels and frames of the tables it reads, for an
\* oscillator with a bank of frameCount frames.  scan is the effective scan
\* position in steps of 1 / ScanSteps.
readWavetable(enabled, frameCount, mipF, scan) ==
  LET mA == mipF \div 1000000
      mB == mA + 1
      scanF == (scan * (frameCount - 1)) \div ScanSteps
      frameA == Min(scanF, frameCount - 2)
      frameB == frameA + 1
  IN IF ~enabled THEN [mips |-> {}, frames |-> {}, tables |-> {}]
     ELSE IF frameCount = 1
     THEN [mips |-> {mA, mB}, frames |-> {0}, tables |-> {<<0, mA>>, <<0, mB>>}]
     ELSE [mips |-> {mA, mB}, frames |-> {frameA, frameB},
           tables |-> {<<frameA, mA>>, <<frameB, mA>>, <<frameA, mB>>, <<frameB, mB>>}]

NoMipRead ==
  [enabled |-> FALSE, frameCount |-> 1, inc |-> [exp |-> 0, mant |-> 0],
   mipF |-> 0, scan |-> 0, read |-> readWavetable(FALSE, 1, 0, 0), reads |-> 0]
RInit == mipRead = NoMipRead

(***************************************************************************)
(* Connected sources of a MidiSession (libs/device_io/src/MidiCapture.cpp) *)
(***************************************************************************)
MAX_CONNECTED_SOURCES == 16

\* uniqueIDs of the MIDI sources CoreMIDI knows, and the uniqueIDs callers
\* pass: the known ones and one no source has.
SourceIds == {1, 2}
RequestIds == SourceIds \cup {3}

EmptySource == [endpoint |-> 0, uniqueID |-> 0, active |-> FALSE]

\* getSourceByUniqueID: the endpoint of the source, 0 when none has the id.
getSourceByUniqueID(uniqueID) ==
  IF uniqueID \in SourceIds THEN 100 + uniqueID ELSE 0

\* The sessions connectMidiSource can leave, ok being whether
\* MIDIPortConnectSource returned noErr.  connectedSources[count] is not an
\* element of the array once count is MAX_CONNECTED_SOURCES: the writes
\* through it land outside the array: they miss the count, which is then
\* incremented, or they put the endpoint into the count stored behind the
\* array before the increment.
connectMidiSource(session, uniqueID, ok) ==
  LET count == session.connectedSourceCount
      source == getSourceByUniqueID(uniqueID)
      connectedSource == [active |-> TRUE, endpoint |-> source, uniqueID |-> uniqueID]
  IN IF source = 0 THEN {session}
     ELSE IF ~ok THEN {session}
     ELSE IF count < MAX_CONNECTED_SOURCES
     THEN {[session EXCEPT !.connectedSources[count] = connectedSource,
                           !.connectedSourceCount = count + 1]}
     ELSE {[session EXCEPT !.connectedSourceCount = c, !.outside = TRUE] :
             c \in {count + 1, source + 1}}

\* disconnectMidiSourceAtIndex, ok being whether MIDIPortDisconnectSource
\* returned noErr: the last entry moves into the slot and is cleared.
disconnectMidiSourceAtIndex(session, srcIndex, ok) ==
  IF ~session.connectedSources[srcIndex].active THEN session
  ELSE IF ~ok THEN session
  ELSE LET swapIndex == session.connectedSourceCount - 1
           moved == [session.connectedSources EXCEPT
                       ![srcIndex] = session.connectedSources[swapIndex]]
       IN [session EXCEPT
             !.connectedSources = [moved EXCEPT ![swapIndex] = EmptySource],
             !.connectedSourceCount = swapIndex]

\* disconnectMidiSource: the first connected entry with the uniqueID.
disconnectMidiSource(session, uniqueID, ok) ==
  LET found == {i \in 0..(session.connectedSourceCount - 1) :
                  session.connectedSources[i].uniqueID = uniqueID}
  IN IF found = {} THEN session
     ELSE disconnectMidiSourceAtIndex(session,
            CHOOSE i \in found : \A j \in found : i <= j, ok)

\* disconnectAllMidiSources: entry 0 is disconnected until none is left or
\* a disconnection fails; succeed is the number that succeed before one
\* fails.
RECURSIVE disconnectAllMidiSources(_, _)
disconnectAllMidiSources(session, succeed) ==
  IF ~(session.connectedSourceCount > 0) THEN session
  ELSE LET after == disconnectMidiSourceAtIndex(session, 0, succeed > 0)
       IN IF after = session THEN session
          ELSE disconnectAllMidiSources(after, succeed - 1)

\* new MidiSession(): no source connected.
NoSources ==
  [connectedSources |-> [i \in 0..(MAX_CONNECTED_SOURCES - 1) |-> EmptySource],
   connectedSourceCount |-> 0, outside |-> FALSE]
SrcInit == midiSrc = NoSources
(***************************************************************************)
(* Bank names and lookup by name (libs/dsp/src/Wavetable.cpp,              *)
(* src/synth/WavetableBanks.cpp).  A name is the sequence of its bytes.    *)
(***************************************************************************)
\* Banks registered and lookups made in one run of the lookup
\* specification.
MaxNamedBanks == 3
MaxLookups == 2

MAX_BANK_NAME_LEN == 64

\* Names passed to createWavetableBank and getBankByName: "a", "A", "ab",
\* and names of MAX_BANK_NAME_LEN - 1 and of MAX_BANK_NAME_LEN bytes with
\* the same first MAX_BANK_NAME_LEN - 1 bytes.
NameSamples ==
  {<<97>>, <<65>>, <<97, 98>>,
   [i \in 1..(MAX_BANK_NAME_LEN - 1) |-> 97],
   [i \in 1..MAX_BANK_NAME_LEN |-> 97]}

\* std::strncpy(bank->name, name, MAX_BANK_NAME_LEN - 1) and the closing
\* '\0': the name a bank gets.
bankName(name) == SubSeq(name, 1, Min(Len(name), MAX_BANK_NAME_LEN - 1))

\* The bank createWavetableBank returns for one frame and a name; id tells
\* the banks (the pointers) apart.
NamedBank(name, id) ==
  [frameCount |-> 1, null |-> FALSE, name |-> bankName(name), id |-> id]

\* std::strcmp(a, b) == 0 for strings without a '\0' inside.
strcmpEqual(a, b) == a = b

\* A lookup that returns the bank registered last under the name.
getBankByNameLast(reg, name) ==
  LET found == {i \in 0..(reg.count - 1) : strcmpEqual(reg.slots[i].name, name)}
  IN IF found = {} THEN NullBank
     ELSE reg.slots[CHOOSE i \in found : \A j \in found : j <= i]

\* getBankByName of both registries: the first entry whose name compares
\* equal, nullptr when there is none.
getBankByName(reg, name) ==
  LET found == {i \in 0..(reg.count - 1) : strcmpEqual(reg.slots[i].name, name)}
  IN IF found = {} THEN NullBank
     ELSE reg.slots[CHOOSE i \in found : \A j \in found : i <= j]

\* Nothing was looked up: no name has a bank returned for it.
NoLookup ==
  [op |-> "none", name |-> <<>>, bank |-> NullBank, before |-> NullBank,
   returned |-> [n \in NameSamples |-> NullBank], registers |-> 0,
   lookups |-> 0, nulls |-> 0]


(***************************************************************************)
(* Computer keyboard (libs/platform_io/src/KeyProcessor.cpp)               *)
(***************************************************************************)
\* Most key events of one run.
MaxKeyEvents == 10

SEMITONES == 12

\* The switch of asciiToMidi: the characters a w s e d f t g y h u j k o l p.
KeyNotes ==
  (97 :> 64) @@ (119 :> 65) @@ (115 :> 66) @@ (101 :> 67) @@ (100 :> 68) @@
  (102 :> 69) @@ (116 :> 70) @@ (103 :> 71) @@ (121 :> 72) @@ (104 :> 73) @@
  (117 :> 74) @@ (106 :> 75) @@ (107 :> 76) @@ (111 :> 77) @@ (108 :> 78) @@
  (112 :> 79)

\* Characters typed: a, p, the unmapped q, x (octave up), z (octave down).
KeySamples == {97, 112, 113, 120, 122}

\* asciiToMidi: the static octiveOffset (a uint8_t) after the call and the
\* note returned, as the uint8_t a NoteEvent holds (Events.h:10).
asciiToMidi(octiveOffset, key) ==
  LET offset == IF key = 122 THEN (octiveOffset - 1) % 256
                ELSE IF key = 120 THEN (octiveOffset + 1) % 256
                ELSE octiveOffset
  IN [octiveOffset |-> offset,
      note |-> IF key \in DOMAIN KeyNotes
               THEN (KeyNotes[key] + offset * SEMITONES) % 256
               ELSE 0]

\* keyEventCallback without the ESC test: the key-up of z and x is ignored,
\* every other event pushes a note event whose note asciiToMidi computes at
\* that moment.
keyEventCallback(k, character, type) ==
  LET converted == asciiToMidi(k.octiveOffset, character)
      held == IF type = "KeyDown" THEN k.held \cup {character}
              ELSE k.held \ {character}
  IN IF character \in {120, 122} /\ type = "KeyUp"
     THEN [k EXCEPT !.held = held, !.pushed = <<>>, !.events = @ + 1]
     ELSE [octiveOffset |-> converted.octiveOffset,
           held |-> held,
           onNote |-> IF type = "KeyDown"
                      THEN [k.onNote EXCEPT ![character] = converted.note]
                      ELSE k.onNote,
           pushed |-> <<[type |-> IF type = "KeyDown" THEN "NoteOn" ELSE "NoteOff",
                         midiNote |-> converted.note, velocity |-> 127,
                         character |-> character,
                         onNote |-> k.onNote[character]]>>,
           events |-> k.events + 1]

\* No key is down, nothing was pushed.
NoKeys ==
  [octiveOffset |-> 0, held |-> {}, onNote |-> [c \in KeySamples |-> 0],
   pushed |-> <<>>, events |-> 0]
KeyInit == keys = NoKeys
YInit == SetInit /\ RInit /\ SrcInit /\ KeyInit

XInit == OInit /\ BInit /\ FInit /\ AInit /\ KInit /\ HInit /\ YInit

(***************************************************************************)
(* SpecEnv: one envelope with any stage lengths, triggered, released and   *)
(* sampled in any order.                                                   *)
(***************************************************************************)
\* The longest stage of the envelope specification, in samples.
MaxStage == 2

\* Trigger and release calls in one run of the envelope specification.
MaxEnvCalls == 3

\* Samples produced after one trigger or release: enough to pass Attack and
\* Decay and to stay in Sustain.
MaxEnvSamples == 2 * MaxStage + 2

\* Sustain levels of the envelope specification (setSustain accepts 0..1).
SustainLevels == {FracZero, Frac(1, 2), FracOne}

EInit ==
  /\ envelope = Envelope(AttackSamples, DecaySamples, SustainLevel, ReleaseSamples)
  /\ envOut = FracZero
  /\ envLast = "none"
  /\ envSince = 0
  /\ envCalls = 0

\* The components outside a specification stay as constructed.
CInit == EInit /\ MInit /\ DInit /\ WInit /\ XInit

\* Voice::noteOn / Envelope::trigger
EnvTrigger ==
  /\ envCalls < MaxEnvCalls
  /\ envelope' = trigger(envelope)
  /\ envLast' = "trigger"
  /\ envSince' = 0
  /\ envCalls' = envCalls + 1
  /\ UNCHANGED <<envOut, qvars, tvars, pvars, ivars, svars, mvars, dvars, wvars, xvars>>

\* Voice::noteOff / Envelope::release
EnvRelease ==
  /\ envCalls < MaxEnvCalls
  /\ envelope' = release(envelope)
  /\ envLast' = "release"
  /\ envSince' = 0
  /\ envCalls' = envCalls + 1
  /\ UNCHANGED <<envOut, qvars, tvars, pvars, ivars, svars, mvars, dvars, wvars, xvars>>

\* Envelope::getNextSample: the amplitude is computed, then the sample is
\* counted.
EnvSample ==
  /\ envSince < MaxEnvSamples
  /\ envOut' = getCurrentAmplitude(envelope)
  /\ envelope' = getNextSample(envelope)
  /\ envSince' = envSince + 1
  /\ UNCHANGED <<envLast, envCalls, qvars, tvars, pvars, ivars, svars, mvars, dvars, wvars, xvars>>

InitEnv ==
  /\ QInit /\ TInit /\ PInit /\ SInit({<<"param", "note">>})
  /\ \E a \in 0..MaxStage, d \in 0..MaxStage, r \in 0..MaxStage :
       \E s \in SustainLevels : envelope = Envelope(a, d, s, r)
  /\ envOut = FracZero
  /\ envLast = "none"
  /\ envSince = 0
  /\ envCalls = 0
  /\ MInit /\ DInit /\ WInit /\ XInit
NextEnv == EnvTrigger \/ EnvRelease \/ EnvSample
SpecEnv == InitEnv /\ [][NextEnv]_vars

(***************************************************************************)
(* SpecMod: any sequence of addRoute, removeRoute and clearRoutes.         *)
(***************************************************************************)
ModUnchanged == UNCHANGED <<qvars, tvars, pvars, ivars, svars, evars, dvars, wvars, xvars>>

ModAdd ==
  /\ modOps.adds < MAX_MOD_ROUTES + ExtraAdds
  /\ LET route == RouteOf(modOps.adds)
         r == addRoute(matrix, route)
     IN /\ matrix' = r.matrix
        /\ modCall' = [op |-> "add", arg |-> route, ret |-> r.ret]
  /\ modOps' = [modOps EXCEPT !.adds = @ + 1]
  /\ ModUnchanged

ModRemove ==
  /\ modOps.removes < MaxRemoves
  /\ \E index \in RemoveIndices :
       LET r == removeRoute(matrix, index)
       IN /\ matrix' = r.matrix
          /\ modCall' = [op |-> "remove", arg |-> index, ret |-> r.ret]
  /\ modOps' = [modOps EXCEPT !.removes = @ + 1]
  /\ ModUnchanged

ModClear ==
  /\ modOps.clears < MaxClears
  /\ LET r == clearRoutes(matrix)
     IN /\ matrix' = r.matrix
        /\ modCall' = [op |-> "clear", arg |-> 0, ret |-> r.ret]
  /\ modOps' = [modOps EXCEPT !.clears = @ + 1]
  /\ ModUnchanged

InitMod == QInit /\ TInit /\ PInit /\ SInit({<<"param", "note">>}) /\ CInit
NextMod == ModAdd \/ ModRemove \/ ModClear
SpecMod == InitMod /\ [][NextMod]_vars

(***************************************************************************)
(* SpecModBlock: per-block update of the destination values, the frames of *)
(* the block, and the end of the block.                                    *)
(***************************************************************************)
BlkUnchanged == UNCHANGED <<qvars, tvars, pvars, ivars, svars, evars, mvars, wvars, xvars>>

\* Start of a block of numFrames frames: the destinations' current values
\* are computed from the routes and sources (any values, or the values of
\* the block before), then the steps.
ModBlockBegin ==
  /\ modBlk.pc = "idle"
  /\ modBlk.blocks < MaxBlocks
  /\ \E numFrames \in 1..MaxFrames :
       \E current \in [Cells -> ModValues] \cup {modDest.destValues} :
         /\ modDest' = setModDestSteps(
                         clearModDestSteps([modDest EXCEPT !.destValues = current]),
                         Cells, Frac(1, numFrames))
         /\ modBlk' = [modBlk EXCEPT !.pc = "frames", !.numFrames = numFrames,
                                     !.frame = 0,
                                     !.same = (current = modDest.destValues)]
  /\ BlkUnchanged

\* Frame modBlk.frame of the block: the modulated values are evaluated.
ModBlockFrame ==
  /\ modBlk.pc = "frames"
  /\ modBlk.frame < modBlk.numFrames
  /\ modBlk' = [modBlk EXCEPT !.out = [c \in Cells |-> modValueAt(modDest, c, modBlk.frame)],
                              !.frame = @ + 1]
  /\ UNCHANGED modDest
  /\ BlkUnchanged

\* End of the block: previous is set to current for the next block.
ModBlockEnd ==
  /\ modBlk.pc = "frames"
  /\ modBlk.frame = modBlk.numFrames
  /\ modDest' = [modDest EXCEPT !.prevDestValues = modDest.destValues]
  /\ modBlk' = [modBlk EXCEPT !.pc = "idle", !.blocks = @ + 1]
  /\ BlkUnchanged

InitModBlock == QInit /\ TInit /\ PInit /\ SInit({<<"param", "note">>}) /\ CInit
NextModBlock == ModBlockBegin \/ ModBlockFrame \/ ModBlockEnd
SpecModBlock == InitModBlock /\ [][NextModBlock]_vars

(***************************************************************************)
(* SpecTable: table reads at the phases of a voice.                        *)
(***************************************************************************)
\* Fraction bits of the phases and offsets that are tried.
FracSamples == {0, 1, 2 ^ (PHASE_SHIFT - 1), FRAC_MASK}
\* FM phase offsets: none, one fraction step, one table position, minus one.
PhaseOffsets == {Phase(0, 0), Phase(0, 1), Phase(1, 0), Phase(TABLE_MASK, FRAC_MASK)}

TableUnchanged == UNCHANGED <<qvars, tvars, pvars, ivars, svars, evars, mvars, dvars, xvars>>

\* initOscillator at a note-on.
InitOscillator ==
  /\ wtPhase' = Phase(0, 0)
  /\ UNCHANGED wtRead
  /\ TableUnchanged

\* readWavetable: one table read at the phase plus the FM offset.
ReadWavetable ==
  /\ \E fmPhaseOffset \in PhaseOffsets :
       wtRead' = readTable(Add32(wtPhase, fmPhaseOffset))
  /\ UNCHANGED wtPhase
  /\ TableUnchanged

InitTable ==
  /\ QInit /\ TInit /\ PInit /\ SInit({<<"param", "note">>})
  /\ EInit /\ MInit /\ DInit /\ XInit
  /\ \E hi \in 0..TABLE_MASK, lo \in FracSamples : wtPhase = Phase(hi, lo)
  /\ wtRead = NoRead
NextTable == InitOscillator \/ ReadWavetable
SpecTable == InitTable /\ [][NextTable]_vars

(***************************************************************************)
(* SpecPhase: note-on and per-sample phase advance of one oscillator voice. *)
(***************************************************************************)
PhaseUnchanged == UNCHANGED <<qvars, tvars, pvars, ivars, svars, evars, mvars, dvars, wtRead, bvars, fvars, avars, kvars, hvars, yvars>>

\* Note-on: initOscillator resets the phase and the increment is converted
\* to fixed point once.
OscNoteOn ==
  /\ \E inc \in IncSamples : \E fixedInc \in toFixedPhaseInc(inc) :
       osc' = OscOf(Phase(0, 0), inc, fixedInc)
  /\ wtPhase' = Phase(0, 0)
  /\ PhaseUnchanged

\* One sample: phase += fixed-point increment, wrapping at 32 bits.
OscAdvance ==
  /\ osc.n < MaxAdvances
  /\ wtPhase' = Add32(wtPhase, osc.fixedInc)
  /\ osc' = [osc EXCEPT !.n = @ + 1]
  /\ PhaseUnchanged

InitPhase ==
  /\ QInit /\ TInit /\ PInit /\ SInit({<<"param", "note">>})
  /\ EInit /\ MInit /\ DInit /\ BInit /\ FInit /\ AInit /\ KInit /\ HInit /\ YInit
  /\ wtRead = NoRead
  /\ \E p0 \in StartPhases : \E inc \in IncSamples : \E fixedInc \in toFixedPhaseInc(inc) :
       /\ wtPhase = p0
       /\ osc = OscOf(p0, inc, fixedInc)
NextPhase == OscNoteOn \/ OscAdvance
SpecPhase == InitPhase /\ [][NextPhase]_vars

(***************************************************************************)
(* SpecBank: the setup thread creates banks and registers them.            *)
(***************************************************************************)
BankUnchanged == UNCHANGED <<qvars, tvars, pvars, ivars, svars, evars, mvars, dvars, wvars, ovars, fvars, avars, kvars, hvars, yvars>>

CreateBank ==
  /\ bankCall.creates < MaxCreates
  /\ \E frameCount \in FrameCountSamples :
       LET r == createWavetableBank(frameCount)
       IN /\ bankHeap' = bankHeap + r.allocations
          /\ bankCall' = [bankCall EXCEPT !.op = "create", !.frameCount = frameCount,
                                          !.bank = r.ret, !.creates = @ + 1]
  /\ UNCHANGED bankReg
  /\ BankUnchanged

\* The bank offered to a registry that holds n banks: one of BankKinds.
OfferedBank(n) == BankOf(1 + (n % BankKinds))

\* registerBank of the registry in use with a bank.
RegisterBank ==
  /\ bankCall.registers < MAX_REGISTRY_BANKS + ExtraRegisters
  /\ LET bank == OfferedBank(bankReg.count)
         r == IF bankReg.impl = "dsp" THEN registerBank(bankReg, bank)
              ELSE banksRegisterBank(bankReg, bank)
     IN /\ bankReg' = r.registry
        /\ bankCall' = [bankCall EXCEPT !.op = "register", !.bank = bank,
                                        !.ret = r.ret, !.registers = @ + 1]
  /\ UNCHANGED bankHeap
  /\ BankUnchanged

\* dsp::wavetable::registerBank with a null pointer.
RegisterNull ==
  /\ bankReg.impl = "dsp"
  /\ bankCall.nulls < MaxNullRegisters
  /\ LET r == registerBank(bankReg, NullBank)
     IN /\ bankReg' = r.registry
        /\ bankCall' = [bankCall EXCEPT !.op = "register", !.bank = NullBank,
                                        !.ret = r.ret, !.nulls = @ + 1]
  /\ UNCHANGED bankHeap
  /\ BankUnchanged

InitBank ==
  /\ QInit /\ TInit /\ PInit /\ SInit({<<"param", "note">>})
  /\ EInit /\ MInit /\ DInit /\ WInit /\ OInit /\ FInit /\ AInit /\ KInit /\ HInit /\ YInit
  /\ \E impl \in {"dsp", "banks"} : bankReg = EmptyRegistry(impl)
  /\ bankHeap = 0
  /\ bankCall = NoBankCall
NextBank == CreateBank \/ RegisterBank \/ RegisterNull
SpecBank == InitBank /\ [][NextBank]_vars

(***************************************************************************)
(* SpecFilter: one filter, enabled and disabled, processing samples.       *)
(***************************************************************************)
FilterUnchanged == UNCHANGED <<qvars, tvars, pvars, ivars, svars, evars, mvars, dvars, wvars, ovars, bvars, avars, kvars, hvars, yvars>>

EnableFilter ==
  /\ \E enable \in BOOLEAN : filt' = enableFilter(filt, enable)
  /\ filtCall' = [filtCall EXCEPT !.op = "enable"]
  /\ FilterUnchanged

ProcessFilter ==
  /\ filtCall.calls < MaxFilterCalls
  /\ \E input \in InputSamples, voiceIndex \in ModVoices :
       LET r == processFilter(filt, input, voiceIndex)
       IN /\ filt' = r.filter
          /\ filtCall' = [filtCall EXCEPT !.op = "process", !.input = input,
                            !.voice = voiceIndex, !.out = r.out, !.used = r.used,
                            !.calls = @ + 1]
  /\ FilterUnchanged

ProcessFilterMod ==
  /\ filtCall.calls < MaxFilterCalls
  /\ \E input \in InputSamples, voiceIndex \in ModVoices :
       \E cutoffHz \in CutoffSamples, resonance \in ResonanceSamples :
         LET r == IF filt.kind = "svf"
                  THEN processSVFilterMod(filt, input, voiceIndex, cutoffHz, resonance)
                  ELSE processLadderFilterMod(filt, input, voiceIndex, cutoffHz, resonance)
         IN /\ filt' = r.filter
            /\ filtCall' = [filtCall EXCEPT !.op = "processMod", !.input = input,
                              !.voice = voiceIndex, !.cutoffHz = cutoffHz,
                              !.resonance = resonance, !.out = r.out,
                              !.used = r.used, !.calls = @ + 1]
  /\ FilterUnchanged

InitFilter ==
  /\ QInit /\ TInit /\ PInit /\ SInit({<<"param", "note">>})
  /\ EInit /\ MInit /\ DInit /\ WInit /\ OInit /\ BInit /\ AInit /\ KInit /\ HInit /\ YInit
  /\ \E kind \in {"svf", "ladder"} : filt = FilterOf(kind)
  /\ filtCall = [op |-> "none", input |-> 0, voice |-> 0, cutoffHz |-> 0,
                 resonance |-> 0, out |-> [filtered |-> FALSE, input |-> 0],
                 used |-> filt.coeffs, calls |-> 0]
NextFilter == EnableFilter \/ ProcessFilter \/ ProcessFilterMod
SpecFilter == InitFilter /\ [][NextFilter]_vars

(***************************************************************************)
(* SpecMidi: the driver assembles packets, the input callback parses them. *)
(***************************************************************************)
MidiUnchanged ==
  UNCHANGED <<qvars, tvars, pvars, ivars, svars, evars, mvars, dvars, wvars,
              ovars, bvars, fvars, avars, hvars, yvars>>

\* The driver puts one more byte into the packet it is assembling; the
\* record of the packet delivered before is dropped.
MidiByte ==
  /\ Len(midiIO.pending) < MaxPacketLen
  /\ \E byte \in ByteSamples :
       midiIO' = [NoPacket EXCEPT !.pending = Append(midiIO.pending, byte)]
  /\ MidiUnchanged

\* midiInputCallback with the assembled packet: the packet is parsed and
\* every decoded event goes to midiCallback.
MidiPacket ==
  /\ midiIO.pending # <<>>
  /\ LET events == parseAndDispatch(midiIO.pending)
     IN midiIO' = [pending |-> <<>>, packet |-> midiIO.pending,
                   steps |-> parseSteps(midiIO.pending, 0),
                   dispatched |-> events, pushed |-> midiCallback(events)]
  /\ MidiUnchanged

InitMidi == QInit /\ TInit /\ PInit /\ SInit({<<"param", "note">>}) /\ CInit
NextMidi == MidiByte \/ MidiPacket
SpecMidi == InitMidi /\ [][NextMidi]_vars

(***************************************************************************)
(* SpecShutdown: main from startSession to return, with the audio and the  *)
(* input callbacks running beside it.                                      *)
(***************************************************************************)
ShutUnchanged ==
  UNCHANGED <<qvars, tvars, pvars, ivars, svars, evars, mvars, dvars, wvars,
              ovars, bvars, fvars, avars, kvars, yvars>>

\* main.cpp:76  synth_io::startSession(session)
StartSession ==
  /\ shut.pc = "startSession"
  /\ shut' = [shut EXCEPT !.pc = "startCapture", !.audioRunning = TRUE]
  /\ ShutUnchanged

\* startKeyInputCapture up to the event loop: the MIDI session, if a device
\* was found, and the key capture are started.
StartCapture ==
  /\ shut.pc = "startCapture"
  /\ shut' = [shut EXCEPT !.pc = "loop", !.midiRunning = shut.hasMidi,
                          !.keyCapture = TRUE]
  /\ ShutUnchanged

\* The audio callback: drains the queues into the engine and renders a block.
AudioCallback ==
  /\ shut.audioRunning
  /\ shut.audioCalls < MaxAudioCalls
  /\ shut' = [shut EXCEPT !.audioCalls = @ + 1,
                          !.late = @ \/ shut.engine = "destroyed"]
  /\ ShutUnchanged

\* keyEventCallback, delivered by the event loop while the capture is on:
\* pushes to the note queue.
KeyCallback ==
  /\ shut.pc = "loop"
  /\ shut.keyCapture
  /\ shut.inputCalls < MaxInputCalls
  /\ shut' = [shut EXCEPT !.inputCalls = @ + 1]
  /\ ShutUnchanged

\* midiInputCallback, while the input port exists: returns at once unless
\* the session is running, else parses the packets and pushes to the note
\* queue.
MidiInputCallback ==
  /\ shut.hasMidi
  /\ shut.pc \in {"loop", "stopKeyCapture", "stopMidiSession", "cleanupMidiSession"}
  /\ shut.inputCalls + shut.midiIgnored < MaxInputCalls
  /\ shut' = IF shut.midiRunning
             THEN [shut EXCEPT !.inputCalls = @ + 1]
             ELSE [shut EXCEPT !.midiIgnored = @ + 1]
  /\ ShutUnchanged

\* ESC: stopKeyCaptureLoop, runKeyCaptureLoop returns.
Escape ==
  /\ shut.pc = "loop"
  /\ shut' = [shut EXCEPT !.pc = "stopKeyCapture"]
  /\ ShutUnchanged

\* KeyProcessor.cpp:137  device_io::stopKeyCapture()
StopKeyCapture ==
  /\ shut.pc = "stopKeyCapture"
  /\ shut' = [shut EXCEPT !.pc = "stopMidiSession", !.keyCapture = FALSE,
                          !.log = Append(@, "stopKeyCapture")]
  /\ ShutUnchanged

\* KeyProcessor.cpp:139-140  stopMidiSession if there is a MIDI session;
\* without one startKeyInputCapture returns.
StopMidiSession ==
  /\ shut.pc = "stopMidiSession"
  /\ shut' = IF shut.hasMidi
             THEN [shut EXCEPT !.pc = "cleanupMidiSession", !.midiRunning = FALSE,
                               !.log = Append(@, "stopMidiSession")]
             ELSE [shut EXCEPT !.pc = "stopSession"]
  /\ ShutUnchanged

\* KeyProcessor.cpp:141-145  cleanupMidiSession; startKeyInputCapture returns.
CleanupMidiSession ==
  /\ shut.pc = "cleanupMidiSession"
  /\ shut' = [shut EXCEPT !.pc = "stopSession"]
  /\ ShutUnchanged

\* main.cpp:80  synth_io::stopSession(session)
StopSession ==
  /\ shut.pc = "stopSession"
  /\ shut' = [shut EXCEPT !.pc = "disposeSession", !.audioRunning = FALSE,
                          !.log = Append(@, "stopSession")]
  /\ ShutUnchanged

\* main.cpp:81  synth_io::disposeSession(session)
DisposeSession ==
  /\ shut.pc = "disposeSession"
  /\ shut' = [shut EXCEPT !.pc = "return", !.log = Append(@, "disposeSession")]
  /\ ShutUnchanged

\* main.cpp:83-84  return: the engine, a local of main, is destroyed.
MainReturn ==
  /\ shut.pc = "return"
  /\ shut' = [shut EXCEPT !.pc = "done", !.engine = "destroyed",
                          !.log = Append(@, "destroyEngine")]
  /\ ShutUnchanged

InitShutdown ==
  /\ QInit /\ TInit /\ PInit /\ SInit({<<"param", "note">>})
  /\ EInit /\ MInit /\ DInit /\ WInit /\ OInit /\ BInit /\ FInit /\ AInit /\ KInit /\ YInit
  /\ \E hasMidi \in BOOLEAN : shut = ShutStart(hasMidi)
NextShutdown ==
  \/ StartSession \/ StartCapture \/ AudioCallback \/ KeyCallback
  \/ MidiInputCallback \/ Escape \/ StopKeyCapture \/ StopMidiSession
  \/ CleanupMidiSession \/ StopSession \/ DisposeSession \/ MainReturn
SpecShutdown == InitShutdown /\ [][NextShutdown]_vars

(***************************************************************************)
(* SpecEnvSet: any sequence of setter calls on an envelope.                *)
(***************************************************************************)
EnvSetUnchanged ==
  UNCHANGED <<qvars, tvars, pvars, ivars, svars, evars, mvars, dvars, wvars,
              ovars, bvars, fvars, avars, kvars, hvars, mipRead, midiSrc, keys>>

SetterCall(op, ms, level, results) ==
  /\ envSet.calls < MaxSetterCalls
  /\ \E r \in results :
       envSet' = [env |-> r.env,
                  call |-> [op |-> op, ms |-> ms, level |-> level, threw |-> r.threw],
                  calls |-> envSet.calls + 1]
  /\ EnvSetUnchanged

SetAttack == \E ms \in MsSamples : SetterCall("setAttack", ms, FracZero, setAttack(envSet.env, ms))
SetDecay == \E ms \in MsSamples : SetterCall("setDecay", ms, FracZero, setDecay(envSet.env, ms))
SetRelease == \E ms \in MsSamples : SetterCall("setRelease", ms, FracZero, setRelease(envSet.env, ms))
SetSustain ==
  \E level \in SustainSamples :
    SetterCall("setSustain", 0, level, setSustain(envSet.env, level))
SetSampleRate ==
  \E rate \in RateSamples :
    SetterCall("setSampleRate", rate, FracZero, setSampleRate(envSet.env, rate))

InitEnvSet ==
  /\ QInit /\ TInit /\ PInit /\ SInit({<<"param", "note">>})
  /\ EInit /\ MInit /\ DInit /\ WInit /\ OInit /\ BInit /\ FInit /\ AInit /\ KInit /\ HInit
  /\ RInit /\ SrcInit /\ KeyInit
  /\ \E state \in {"Idle", "Attack", "Sustain"} :
       envSet = [env |-> ConstructedEnvelope(state), call |-> NoSetterCall, calls |-> 0]
NextEnvSet == SetAttack \/ SetDecay \/ SetRelease \/ SetSustain \/ SetSampleRate
SpecEnvSet == InitEnvSet /\ [][NextEnvSet]_vars

(***************************************************************************)
(* SpecMip: one sample of an oscillator voice: the mip level is selected   *)
(* from the phase increment and the wavetable is read.                     *)
(***************************************************************************)
\* The mip level of the voice's phase increment is selected and the
\* wavetable is read at the effective scan position.
ReadMip ==
  /\ mipRead.reads = 0
  /\ LET mipF == selectMipLevel(mipRead.inc)
     IN mipRead' = [mipRead EXCEPT
                      !.mipF = mipF,
                      !.read = readWavetable(mipRead.enabled, mipRead.frameCount,
                                             mipF, mipRead.scan),
                      !.reads = 1]
  /\ UNCHANGED <<qvars, tvars, pvars, ivars, svars, evars, mvars, dvars, wvars,
                 ovars, bvars, fvars, avars, kvars, hvars, envSet, midiSrc, keys>>

\* The oscillator, its bank, the voice's phase increment and the effective
\* scan position of the sample.
InitMip ==
  /\ QInit /\ TInit /\ PInit /\ SInit({<<"param", "note">>})
  /\ EInit /\ MInit /\ DInit /\ WInit /\ OInit /\ BInit /\ FInit /\ AInit /\ KInit /\ HInit
  /\ SetInit /\ SrcInit /\ KeyInit
  /\ \E enabled \in BOOLEAN, frameCount \in BankFrameCounts :
       \E inc \in PhaseIncrements, scan \in 0..ScanSteps :
         mipRead = [NoMipRead EXCEPT !.enabled = enabled, !.frameCount = frameCount,
                                     !.inc = inc, !.scan = scan]
NextMip == ReadMip
SpecMip == InitMip /\ [][NextMip]_vars

(***************************************************************************)
(* SpecMidiSrc: any sequence of connect and disconnect calls on one MIDI   *)
(* session.  After a write outside the array nothing more is followed.     *)
(***************************************************************************)
MidiSrcUnchanged ==
  UNCHANGED <<qvars, tvars, pvars, ivars, svars, evars, mvars, dvars, wvars,
              ovars, bvars, fvars, avars, kvars, hvars, envSet, mipRead, keys>>

ConnectMidiSource ==
  /\ ~midiSrc.outside
  /\ \E uniqueID \in RequestIds, ok \in BOOLEAN :
       \E after \in connectMidiSource(midiSrc, uniqueID, ok) :
         midiSrc' = after
  /\ MidiSrcUnchanged

DisconnectMidiSource ==
  /\ ~midiSrc.outside
  /\ \E uniqueID \in RequestIds, ok \in BOOLEAN :
       midiSrc' = disconnectMidiSource(midiSrc, uniqueID, ok)
  /\ MidiSrcUnchanged

DisconnectAllMidiSources ==
  /\ ~midiSrc.outside
  /\ \E succeed \in {0, 1, MAX_CONNECTED_SOURCES} :
       midiSrc' = disconnectAllMidiSources(midiSrc, succeed)
  /\ MidiSrcUnchanged

InitMidiSrc ==
  /\ QInit /\ TInit /\ PInit /\ SInit({<<"param", "note">>})
  /\ EInit /\ MInit /\ DInit /\ WInit /\ OInit /\ BInit /\ FInit /\ AInit /\ KInit /\ HInit
  /\ SetInit /\ RInit /\ SrcInit /\ KeyInit
NextMidiSrc == ConnectMidiSource \/ DisconnectMidiSource \/ DisconnectAllMidiSources
SpecMidiSrc == InitMidiSrc /\ [][NextMidiSrc]_vars

(***************************************************************************)
(* SpecKeys: any sequence of key-down and key-up events; a key goes down   *)
(* when it is up and up when it is down.                                   *)
(***************************************************************************)
KeysUnchanged ==
  UNCHANGED <<qvars, tvars, pvars, ivars, svars, evars, mvars, dvars, wvars,
              ovars, bvars, fvars, avars, kvars, hvars, envSet, mipRead, midiSrc>>

KeyDown ==
  /\ keys.events < MaxKeyEvents
  /\ \E character \in KeySamples \ keys.held :
       keys' = keyEventCallback(keys, character, "KeyDown")
  /\ KeysUnchanged

KeyUp ==
  /\ keys.events < MaxKeyEvents
  /\ \E character \in keys.held :
       keys' = keyEventCallback(keys, character, "KeyUp")
  /\ KeysUnchanged

InitKeys ==
  /\ QInit /\ TInit /\ PInit /\ SInit({<<"param", "note">>})
  /\ EInit /\ MInit /\ DInit /\ WInit /\ OInit /\ BInit /\ FInit /\ AInit /\ KInit /\ HInit
  /\ SetInit /\ RInit /\ SrcInit /\ KeyInit
NextKeys == KeyDown \/ KeyUp
SpecKeys == InitKeys /\ [][NextKeys]_vars

(***************************************************************************)
(* SpecBankName: banks are created with a name and registered, and names   *)
(* are looked up, in any order, on either registry.                        *)
(***************************************************************************)
\* createWavetableBank(1, name) and registerBank of the registry in use
\* with the bank created.
RegisterNamed ==
  /\ bankCall.registers < MaxNamedBanks
  /\ \E name \in NameSamples :
       LET bank == NamedBank(name, bankCall.registers + 1)
           r == IF bankReg.impl = "dsp" THEN registerBank(bankReg, bank)
                ELSE banksRegisterBank(bankReg, bank)
       IN /\ bankReg' = r.registry
          /\ bankCall' = [bankCall EXCEPT !.op = "register", !.name = name,
                                          !.bank = bank, !.registers = @ + 1]
  /\ bankHeap' = bankHeap + createWavetableBank(1).allocations
  /\ BankUnchanged

\* dsp::wavetable::registerBank with a null pointer.
RegisterNullNamed ==
  /\ bankReg.impl = "dsp"
  /\ bankCall.nulls < MaxNullRegisters
  /\ bankReg' = registerBank(bankReg, NullBank).registry
  /\ bankCall' = [bankCall EXCEPT !.op = "register", !.name = <<>>,
                                  !.bank = NullBank, !.nulls = @ + 1]
  /\ UNCHANGED bankHeap
  /\ BankUnchanged

\* getBankByName(name); before is the bank an earlier lookup returned for
\* the name, and the first bank returned for a name is remembered.
LookupBank ==
  /\ bankCall.lookups < MaxLookups
  /\ \E name \in NameSamples :
       LET bank == getBankByName(bankReg, name)
       IN bankCall' = [bankCall EXCEPT
            !.op = "lookup", !.name = name, !.bank = bank,
            !.before = bankCall.returned[name],
            !.returned[name] = IF @.null THEN bank ELSE @,
            !.lookups = @ + 1]
  /\ UNCHANGED <<bankReg, bankHeap>>
  /\ BankUnchanged

InitBankName ==
  /\ QInit /\ TInit /\ PInit /\ SInit({<<"param", "note">>})
  /\ EInit /\ MInit /\ DInit /\ WInit /\ OInit /\ FInit /\ AInit /\ KInit /\ HInit /\ YInit
  /\ \E impl \in {"dsp", "banks"} : bankReg = EmptyRegistry(impl)
  /\ bankHeap = 0
  /\ bankCall = NoLookup
NextBankName == RegisterNamed \/ RegisterNullNamed \/ LookupBank
SpecBankName == InitBankName /\ [][NextBankName]_vars

(***************************************************************************)
(* SpecSeq: any sequence of whole push and pop calls on the param queue.   *)
(***************************************************************************)
SeqPush ==
  /\ Len(accepted["param"]) < SIZE + ExtraPush
  /\ push("param", EventOf(Len(accepted["param"])))
  /\ UNCHANGED <<tvars, nonQueueVars>>

SeqPop ==
  /\ pop("param")
  /\ UNCHANGED <<tvars, nonQueueVars>>

InitSeq == QInit /\ TInit /\ PInit /\ SInit({<<"param", "note">>}) /\ CInit
NextSeq == SeqPush \/ SeqPop
SpecSeq == InitSeq /\ [][NextSeq]_vars

(***************************************************************************)
(* SpecSPSC: one producer thread inside push and one consumer thread       *)
(* inside pop, interleaved at the granularity of the atomic accesses:      *)
(* load the indices, copy the slot, store the new index.                   *)
(***************************************************************************)
\* The producer and the consumer are both about to access the same slot with
\* no ordering between the two accesses (a data race on a non-atomic slot).
Racing == ppc = "copy" /\ cpc = "copy" /\ pcur = ccur

\* What a read of slot i of queue q may return: the stored event, or, when
\* the read races with the producer's write, also the event being written.
SlotRead(q, i) ==
  IF Racing /\ q = "param" /\ i = pcur THEN {Slot(q, i), pev} ELSE {Slot(q, i)}

\* push, lines 7-11: load writeIndex, compute nextIndex, load readIndex.
PushLoad ==
  /\ ppc = "idle"
  /\ Len(accepted["param"]) < SIZE + ExtraPush
  /\ LET currentIndex == writeIndex["param"]
         nextIndex == NextIndex(currentIndex)
     IN IF IsFull(nextIndex, readIndex["param"])
        THEN /\ pushRet' = FALSE
             /\ UNCHANGED <<ppc, pcur, pev>>
        ELSE /\ ppc' = "copy"
             /\ pcur' = currentIndex
             /\ pev' = EventOf(Len(accepted["param"]))
             /\ UNCHANGED pushRet
  /\ UNCHANGED <<nonQueueVars, queue, readIndex, writeIndex, popRet, popOut,
                 lastCall, accepted, delivered, cpc, ccur>>

\* push, line 13: queue[currentIndex] = event.
PushCopy ==
  /\ ppc = "copy"
  /\ queue' = StoreSlot("param", pcur, pev)
  /\ ppc' = "store"
  /\ UNCHANGED <<nonQueueVars, readIndex, writeIndex, pushRet, popRet, popOut,
                 lastCall, accepted, delivered, pcur, pev, cpc, ccur>>

\* push, lines 14-16: writeIndex.store(nextIndex); return true.
PushStore ==
  /\ ppc = "store"
  /\ writeIndex' = [writeIndex EXCEPT !["param"] = NextIndex(pcur)]
  /\ pushRet' = TRUE
  /\ accepted' = [accepted EXCEPT !["param"] = Append(@, pev)]
  /\ ppc' = "idle"
  /\ UNCHANGED <<nonQueueVars, queue, readIndex, popRet, popOut, lastCall,
                 delivered, pcur, pev, cpc, ccur>>

\* pop, lines 20-23: load readIndex, load writeIndex.
PopLoad ==
  /\ cpc = "idle"
  /\ LET currentIndex == readIndex["param"]
     IN IF IsEmpty(currentIndex, writeIndex["param"])
        THEN /\ popRet' = FALSE
             /\ UNCHANGED <<cpc, ccur>>
        ELSE /\ cpc' = "copy"
             /\ ccur' = currentIndex
             /\ UNCHANGED popRet
  /\ UNCHANGED <<nonQueueVars, queue, readIndex, writeIndex, pushRet, popOut,
                 lastCall, accepted, delivered, ppc, pcur, pev>>

\* pop, line 25: event = queue[currentIndex].
PopCopy ==
  /\ cpc = "copy"
  /\ popOut' \in SlotRead("param", ccur)
  /\ cpc' = "store"
  /\ UNCHANGED <<nonQueueVars, queue, readIndex, writeIndex, pushRet, popRet,
                 lastCall, accepted, delivered, ppc, pcur, pev, ccur>>

\* pop, lines 26-28: readIndex.store((currentIndex + 1) & WRAP); return true.
PopStore ==
  /\ cpc = "store"
  /\ readIndex' = [readIndex EXCEPT !["param"] = NextIndex(ccur)]
  /\ popRet' = TRUE
  /\ delivered' = [delivered EXCEPT !["param"] = Append(@, popOut)]
  /\ cpc' = "idle"
  /\ UNCHANGED <<nonQueueVars, queue, writeIndex, pushRet, popOut, lastCall,
                 accepted, ppc, pcur, pev, ccur>>

InitSPSC == QInit /\ TInit /\ PInit /\ SInit({<<"param", "note">>}) /\ CInit
NextSPSC == PushLoad \/ PushCopy \/ PushStore \/ PopLoad \/ PopCopy \/ PopStore
SpecSPSC == InitSPSC /\ [][NextSPSC]_vars

(***************************************************************************)
(* SpecPool: note events and audio blocks applied directly to the engine.  *)
(***************************************************************************)
\* Note-ons handled in one run of the pool specification.
MaxNoteOns == MAX_VOICES + 1

Velocity == 127

NoteEvent(type, midiNote) ==
  [type |-> type, midiNote |-> midiNote, velocity |-> Velocity]

\* The notes a note-on may carry: the pool treats notes only by equality, so
\* the input plays 0, a note it has played before, or the next note of
\* NotePool.
PlayableNotes(k) == {0} \cup {NotePool[j] : j \in 1..k}

Introduce(n) ==
  introduced' = IF n \in PlayableNotes(introduced) THEN introduced
                ELSE introduced + 1

PoolNoteOn ==
  /\ noteCount < MaxNoteOns
  /\ \E n \in PlayableNotes(introduced + 1) \cap (Notes \cup {0}) :
       /\ processNoteEvent(NoteEvent("NoteOn", n))
       /\ Introduce(n)
  /\ UNCHANGED <<cvars, qvars, tvars, svars>>

PoolNoteOff ==
  /\ \E n \in Notes \cup {0} : processNoteEvent(NoteEvent("NoteOff", n))
  /\ UNCHANGED <<cvars, qvars, tvars, ivars, svars>>

PoolProcess ==
  /\ \E numFrames \in 1..MaxFrames : processAudioBlock(numFrames)
  /\ UNCHANGED <<cvars, qvars, tvars, ivars, svars>>

InitPool == QInit /\ TInit /\ PInit /\ SInit({<<"param", "note">>}) /\ CInit
NextPool == PoolNoteOn \/ PoolNoteOff \/ PoolProcess
SpecPool == InitPool /\ [][NextPool]_vars

(***************************************************************************)
(* SpecEngine: the input thread publishes parameter and note events, the   *)
(* audio callback drains the queues, applies the events and generates a    *)
(* block.                                                                  *)
(***************************************************************************)
ParamIdsIn == {OSC1_OCTAVE_OFFSET}
ParamValues == {0, 1}
\* The value of the parameter events the engine specification publishes.
PublishedValues == {1}

Published == Len(publishLog)

LogPush(q) ==
  publishLog' = IF pushRet' THEN Append(publishLog, q) ELSE publishLog

\* The input side publishes a parameter event.
PublishParam ==
  /\ Published < MaxEvents
  /\ \E id \in ParamIdsIn, v \in PublishedValues :
       push("param", [id |-> id, value |-> v])
  /\ LogPush("param")
  /\ UNCHANGED <<cvars, tvars, pvars, ivars, apc, drainOrder, drainIdx, drained,
                 startAccepted, appliedLog, applied>>

\* midiCallback / keyEventCallback: the input side publishes a note event
\* (an unmapped key publishes note 0).
PublishNote ==
  /\ Published < MaxEvents
  /\ \/ \E n \in PlayableNotes(introduced + 1) :
          /\ push("note", NoteEvent("NoteOn", n))
          /\ Introduce(n)
     \/ \E n \in PlayableNotes(introduced) :
          /\ push("note", NoteEvent("NoteOff", n))
          /\ UNCHANGED introduced
  /\ LogPush("note")
  /\ UNCHANGED <<cvars, tvars, pvars, apc, drainOrder, drainIdx, drained,
                 startAccepted, appliedLog, applied>>

\* The audio driver calls the session's callback.
CallbackBegin ==
  /\ apc = "idle"
  /\ apc' = "drain"
  /\ drainIdx' = 1
  /\ drained' = 0
  /\ startAccepted' = [q \in Queues |-> Len(accepted[q])]
  /\ UNCHANGED <<cvars, qvars, tvars, pvars, ivars, drainOrder, publishLog,
                 appliedLog, applied>>

\* A drain that goes on to the block as soon as one queue is done.
DrainAdvanceSkip ==
  /\ apc' = "block"
  /\ UNCHANGED <<drainIdx, drained>>

\* The drain of the current queue is over: go on to the next queue, or to the
\* block when both queues are done.
DrainAdvance ==
  IF drainIdx < Len(drainOrder)
  THEN /\ drainIdx' = drainIdx + 1
       /\ drained' = 0
       /\ UNCHANGED apc
  ELSE /\ apc' = "block"
       /\ UNCHANGED <<drainIdx, drained>>

\* main.cpp processParamEvent / processNoteEvent: the session hands a popped
\* event to the engine.
Dispatch(q, event) ==
  /\ IF q = "param" THEN processParamEvent(event) ELSE processNoteEvent(event)
  /\ applied' = [applied EXCEPT ![q] = Append(@, event)]
  /\ appliedLog' = Append(appliedLog, q)

\* The most events one callback pops from one queue: the queue's capacity.
DrainLimit == SIZE

\* One iteration of the drain loop: pop the current queue (at most DrainLimit
\* pops per queue and callback) and dispatch the event, or finish the queue.
DrainStep ==
  /\ apc = "drain"
  /\ LET q == drainOrder[drainIdx]
     IN IF drained >= DrainLimit
        THEN /\ DrainAdvance
             /\ UNCHANGED <<qvars, pvars, appliedLog, applied>>
        ELSE /\ pop(q)
             /\ IF popRet'
                THEN /\ Dispatch(q, popOut')
                     /\ drained' = drained + 1
                     /\ UNCHANGED <<apc, drainIdx>>
                ELSE /\ DrainAdvance
                     /\ UNCHANGED <<pvars, appliedLog, applied>>
  /\ UNCHANGED <<cvars, tvars, ivars, drainOrder, startAccepted, publishLog>>

\* main.cpp processAudioBlock: the session has the engine generate the
\* block; the driver asks for blocks of one length.
GenerateBlock ==
  /\ apc = "block"
  /\ \E numFrames \in {MaxFrames} : processAudioBlock(numFrames)
  /\ apc' = "idle"
  /\ UNCHANGED <<cvars, qvars, tvars, ivars, drainOrder, drainIdx, drained,
                 startAccepted, publishLog, appliedLog, applied>>

InitEngine == QInit /\ TInit /\ PInit /\ SInit(DrainOrders) /\ CInit
NextEngine ==
  PublishParam \/ PublishNote \/ CallbackBegin \/ DrainStep \/ GenerateBlock
SpecEngine == InitEngine /\ [][NextEngine]_vars

(***************************************************************************)
(* SpecParam: the session hands parameter events with any id to the        *)
(* engine.                                                                 *)
(***************************************************************************)
\* ParamEvent::id is a uint8_t.
ParamIds == 0..255

\* setParamValueByID: the entries of the binding table a call reads.
bindingAccess(id) == IF id < PARAM_COUNT THEN {id} ELSE {}

\* The session hands a parameter event popped from the queue to the engine.
ApplyParam ==
  /\ Len(appliedLog) < MaxParamEvents
  /\ \E id \in ParamIds, value \in ParamValues :
       Dispatch("param", [id |-> id, value |-> value])
  /\ UNCHANGED <<cvars, qvars, tvars, ivars, apc, drainOrder, drainIdx, drained,
                 startAccepted, publishLog>>

InitParam == QInit /\ TInit /\ PInit /\ SInit({<<"param", "note">>}) /\ CInit
NextParam == ApplyParam
SpecParam == InitParam /\ [][NextParam]_vars

(***************************************************************************)
(* SpecGain: master gain events, note events and audio blocks, with the    *)
(* output buffer of each block.                                            *)
(***************************************************************************)
\* Events of each kind, and audio blocks, in one run.
MaxGainEvents == 2
MaxGainBlocks == 1

GainBlocks == Cardinality({k \in 1..Len(appliedLog) : appliedLog[k] = "block"})

GainParam ==
  /\ Len(applied["param"]) < MaxGainEvents
  /\ \E value \in ParamValues :
       Dispatch("param", [id |-> MASTER_GAIN, value |-> value])
  /\ UNCHANGED <<cvars, qvars, tvars, ivars, apc, drainOrder, drainIdx, drained,
                 startAccepted, publishLog>>

GainNote ==
  /\ Len(applied["note"]) < MaxGainEvents
  /\ \E type \in {"NoteOn", "NoteOff"} :
       \E n \in PlayableNotes(introduced + 1) \cap (Notes \cup {0}) :
         /\ Dispatch("note", NoteEvent(type, n))
         /\ Introduce(n)
  /\ UNCHANGED <<cvars, qvars, tvars, apc, drainOrder, drainIdx, drained,
                 startAccepted, publishLog>>

\* The session has the engine generate one block of the device's block
\* size into the output buffer.
GainBlock ==
  /\ GainBlocks < MaxGainBlocks
  /\ \E numFrames \in {MaxFrames} :
       /\ processAudioBlock(numFrames)
       /\ audioOut' = outputBufferOf(voicePool, numFrames)
  /\ appliedLog' = Append(appliedLog, "block")
  /\ UNCHANGED <<nonAudioVars, qvars, tvars, ivars, apc, drainOrder, drainIdx,
                 drained, startAccepted, publishLog, applied>>

InitGain == QInit /\ TInit /\ PInit /\ SInit({<<"param", "note">>}) /\ CInit
NextGain == GainParam \/ GainNote \/ GainBlock
SpecGain == InitGain /\ [][NextGain]_vars

(***************************************************************************)
(* Properties of the event queue.                                          *)
(***************************************************************************)
IsPrefix(s, t) == Len(s) <= Len(t) /\ s = SubSeq(t, 1, Len(s))

\* C1: in any sequence of push and pop calls, push returns false exactly when
\* SIZE - 1 = 255 pushed events are unconsumed at the call, and pop returns
\* false exactly when no pushed event is unconsumed at the call.
C1_ReturnValues ==
  [][ /\ (lastCall' = "push" => ((pushRet' = FALSE) <=> (Unconsumed("param") = SIZE - 1)))
      /\ (lastCall' = "pop" => ((popRet' = FALSE) <=> (Unconsumed("param") = 0))) ]_vars

\* A push was refused with 255 events unconsumed after the indices wrapped.
C1_Witness ==
  /\ lastCall = "push"
  /\ pushRet = FALSE
  /\ Unconsumed("param") = SIZE - 1
  /\ Len(delivered["param"]) = 2

\* C2: with one producer and one consumer interleaved step by step, the
\* events returned by successful pops form a prefix of the events accepted by
\* successful pushes (same order, none lost, none delivered twice).
C2_Fifo == IsPrefix(delivered["param"], accepted["param"])

\* More than SIZE events were delivered (both indices wrapped past 255) while
\* the producer is inside a push.
C2_Witness ==
  /\ Len(delivered["param"]) > SIZE
  /\ readIndex["param"] = 1
  /\ ppc = "store"

\* Slot pcur is being written and is not yet published; slot ccur is being
\* read and is not yet released.
ProducerInSlot == ppc \in {"copy", "store"}
ConsumerInSlot == cpc \in {"copy", "store"}

\* C3: the producer stores the new writeIndex only when the slot at the old
\* writeIndex already holds the pushed event, and the consumer stores the new
\* readIndex only when it has copied out the slot at the old readIndex; in
\* every interleaving the consumer never reads a slot the producer is still
\* writing or has not published, and the producer never writes a slot the
\* consumer is reading or has not released.
C3_SlotOwnership ==
  /\ [][ /\ (writeIndex' # writeIndex =>
               /\ Slot("param", writeIndex["param"]) = pev
               /\ accepted'["param"] = Append(accepted["param"], pev))
         /\ (readIndex' # readIndex =>
               /\ popOut = Slot("param", readIndex["param"])
               /\ popOut = accepted["param"][Len(delivered["param"]) + 1]) ]_vars
  /\ []((cpc = "copy" /\ ProducerInSlot) => ccur # pcur)
  /\ []((ppc = "copy" /\ ConsumerInSlot) => pcur # ccur)

\* Producer and consumer are both at their slot access on an almost full
\* queue whose write index has wrapped: the producer fills the last free slot
\* but one, right behind the slot the consumer is reading.
C3_Witness ==
  /\ ppc = "copy"
  /\ cpc = "copy"
  /\ ccur = NextIndex(NextIndex(pcur))
  /\ Len(accepted["param"]) >= SIZE

\* C4: a push on a full queue (255 unconsumed events) returns false and
\* leaves readIndex, writeIndex and every slot unchanged.
C4_DropNew ==
  [][ (lastCall' = "push" /\ Unconsumed("param") = SIZE - 1)
        => /\ pushRet' = FALSE
           /\ queue' = queue
           /\ readIndex' = readIndex
           /\ writeIndex' = writeIndex
           /\ accepted' = accepted ]_vars

\* A push was refused on a full queue whose oldest unconsumed event sits in
\* the slot the refused push would have had to overwrite next.
C4_Witness ==
  /\ lastCall = "push"
  /\ pushRet = FALSE
  /\ Unconsumed("param") = SIZE - 1
  /\ readIndex["param"] = NextIndex(writeIndex["param"])
  /\ Slot("param", readIndex["param"]) = accepted["param"][Len(delivered["param"]) + 1]
  /\ Len(delivered["param"]) = 1

(***************************************************************************)
(* Properties of the voice pool.                                           *)
(***************************************************************************)
\* The step is the engine handling a note-on for note n (n # 0).  Every such
\* step counts the note-on, so the counter is compared first.
NoteOnStep(n) ==
  /\ noteCount' # noteCount
  /\ processNoteEvent(NoteEvent("NoteOn", n))

ActiveCount(pool) == Cardinality({i \in VoiceIds : pool[i].active})
Holders(pool, n) == {i \in VoiceIds : pool[i].active /\ pool[i].midiNote = n}

\* The pool after MAX_VOICES note-ons with pairwise distinct notes and no
\* note-off that reached a voice: the engine has handled exactly MAX_VOICES
\* note-ons and the voices sound the first MAX_VOICES notes of NotePool, none
\* of them released.  The input plays new notes in NotePool order, so the
\* first note-on carried NotePool[1].
FreshFull ==
  /\ noteCount = MAX_VOICES
  /\ \A i \in VoiceIds : voicePool[i].active /\ ~voicePool[i].releasing
  /\ {voicePool[i].midiNote : i \in VoiceIds} = {NotePool[k] : k \in 1..MAX_VOICES}

\* C7: from a pool of capacity V with all voices inactive, after V + 1
\* consecutive note-ons with pairwise distinct notes and no note-off, exactly
\* V voices are active, no voice holds the note of the first note-on, and
\* each of the other V notes is held by exactly one voice.
C7_StealOldest ==
  [][ (FreshFull /\ NoteOnStep(NotePool[MAX_VOICES + 1]))
        => /\ ActiveCount(voicePool') = MAX_VOICES
           /\ Holders(voicePool', NotePool[1]) = {}
           /\ \A k \in 2..(MAX_VOICES + 1) :
                Cardinality(Holders(voicePool', NotePool[k])) = 1 ]_vars

\* MAX_VOICES + 1 note-ons were handled and the voices sound the second to
\* the last note of NotePool (for four voices: 62, 64, 65, 67 and not 60).
C7_Witness ==
  /\ noteCount = MAX_VOICES + 1
  /\ ActiveCount(voicePool) = MAX_VOICES
  /\ \A i \in VoiceIds : ~voicePool[i].releasing /\ voicePool[i].env = trigger(IdleEnvelope)
  /\ {voicePool[i].midiNote : i \in VoiceIds} = {NotePool[k] : k \in 2..(MAX_VOICES + 1)}

\* The voices a step changed.
Taken == {i \in VoiceIds : voicePool'[i] # voicePool[i]}

\* i is the one voice of S with the smallest age.
IsOldestOf(i, S) == i \in S /\ \A j \in S \ {i} : voicePool[i].age < voicePool[j].age

\* C8: a note-on for a note that no active, non-releasing voice holds takes
\* exactly one voice: an inactive voice when one exists; else the releasing
\* voice with the smallest age when a voice is releasing; else the active
\* voice with the smallest age.
C8_Allocation ==
  [][ \A n \in Notes :
        (Held(voicePool, n) = {} /\ NoteOnStep(n))
          => \E i \in VoiceIds :
               /\ Taken = {i}
               /\ voicePool'[i].active /\ voicePool'[i].midiNote = n
               /\ IF Inactive(voicePool) # {} THEN i \in Inactive(voicePool)
                  ELSE IF Releasing(voicePool) # {}
                  THEN IsOldestOf(i, Releasing(voicePool))
                  ELSE IsOldestOf(i, VoiceIds) ]_vars

\* A releasing voice was stolen although an older voice was sounding: the
\* voice of the first note-on still sounds NotePool[1], untouched by any
\* audio block, next to the voice of note-on number MAX_VOICES + 1.
C8_Witness ==
  /\ noteCount = MAX_VOICES + 1
  /\ ActiveCount(voicePool) = MAX_VOICES
  /\ \E i \in VoiceIds :
       /\ voicePool[i].age = 0 /\ voicePool[i].midiNote = NotePool[1]
       /\ ~voicePool[i].releasing /\ voicePool[i].env = trigger(IdleEnvelope)
  /\ \E j \in VoiceIds : voicePool[j].age = MAX_VOICES

C10_RetriggerReleasing ==
  [][ \A n \in Notes :
        ((\E k \in VoiceIds :
            /\ Holders(voicePool, n) = {k}
            /\ voicePool[k].releasing
            /\ voicePool[k].env.state = "Release")
         /\ NoteOnStep(n))
          => \E i \in VoiceIds :
               /\ Holders(voicePool', n) = {i}
               /\ voicePool'[i].env.state = "Attack" ]_vars

(***************************************************************************)
(* Properties of the event path from the input thread to the engine.       *)
(***************************************************************************)
\* C5: when the callback generates the first frame of a block it has drained
\* the queues: every event whose push completed before the callback began has
\* been applied to the engine, and the engine receives the events of a queue
\* in the order of their pushes.
C5_DrainBeforeBlock ==
  /\ \A q \in Queues : IsPrefix(applied[q], accepted[q])
  /\ apc = "block" => \A q \in Queues : Len(applied[q]) >= startAccepted[q]

\* A block is about to be generated after a callback that found one
\* parameter event and two note events pending and applied all three.
C5_Witness ==
  /\ apc = "block"
  /\ startAccepted["param"] = 1
  /\ startAccepted["note"] = 2
  /\ Len(applied["param"]) = 1
  /\ Len(applied["note"]) = 2

\* The number of entries q among the first n entries of log.
CountIn(log, q, n) == Cardinality({x \in 1..n : log[x] = q})

\* The position in log of the k-th entry q, or 0 when there is none.
PosOf(log, q, k) ==
  LET S == {x \in 1..Len(log) : log[x] = q /\ CountIn(log, q, x) = k}
  IN IF S = {} THEN 0 ELSE CHOOSE x \in S : TRUE

\* C6: if the input side publishes a parameter event and afterwards a
\* note-on event, the engine applies the parameter event before it handles
\* the note-on.
C6_ParamBeforeNoteOn ==
  \A i, j \in 1..Len(publishLog) :
    (/\ i < j
     /\ publishLog[i] = "param"
     /\ publishLog[j] = "note"
     /\ accepted["note"][CountIn(publishLog, "note", j)].type = "NoteOn")
      => LET a == PosOf(appliedLog, "param", CountIn(publishLog, "param", i))
             b == PosOf(appliedLog, "note", CountIn(publishLog, "note", j))
         IN b # 0 => (a # 0 /\ a < b)

(***************************************************************************)
(* Note-off, voice lifetime and ignored events.                            *)
(***************************************************************************)
\* The step is the engine handling a note-off for note n (n # 0).
NoteOffStep(n) == processNoteEvent(NoteEvent("NoteOff", n))

\* C11: a note-off for note N moves every voice that is active, holds N and
\* is not releasing into Release (no sample counted) and marks it releasing;
\* every other voice (inactive, holding another note, or already releasing)
\* is left unchanged, so a release under way is not restarted.
C11_NoteOff ==
  [][ \A n \in Notes :
        NoteOffStep(n)
          => \A i \in VoiceIds :
               IF /\ voicePool[i].active
                  /\ voicePool[i].midiNote = n
                  /\ ~voicePool[i].releasing
               THEN /\ voicePool'[i].env.state = "Release"
                    /\ voicePool'[i].env.samples = 0
                    /\ voicePool'[i].releasing
                    /\ voicePool'[i].active
                    /\ voicePool'[i].midiNote = n
                    /\ voicePool'[i].age = voicePool[i].age
               ELSE voicePool'[i] = voicePool[i] ]_vars

\* Two voices hold NotePool[1] and both are releasing: the younger one was
\* released by the last note-off while the older one was one sample into its
\* release, and still is.
C11_Witness ==
  \E i, j \in VoiceIds :
    /\ voicePool[i].active /\ voicePool[i].releasing
    /\ voicePool[j].active /\ voicePool[j].releasing
    /\ voicePool[i].midiNote = NotePool[1] /\ voicePool[j].midiNote = NotePool[1]
    /\ voicePool[i].age < voicePool[j].age
    /\ voicePool[i].env.state = "Release" /\ voicePool[i].env.samples = 1
    /\ voicePool[j].env.state = "Release" /\ voicePool[j].env.samples = 0

\* The audio driver keeps calling the callback: an audio block that changes
\* the pool is eventually generated.
SpecPoolFair == SpecPool /\ WF_vars(PoolProcess)

\* The step is the engine generating an audio block.
ProcessStep == \E numFrames \in 1..MaxFrames : processAudioBlock(numFrames)

\* C12: a voice that was released and is neither retriggered nor stolen is
\* eventually driven to Idle by the audio blocks and is then inactive, that
\* is, available to the next note-on (a voice is active exactly while its
\* envelope is not Idle); a voice that is held is still active and held
\* after any audio block.
C12_ReleaseFrees ==
  /\ \A i \in VoiceIds :
       (voicePool[i].active /\ voicePool[i].releasing)
         ~> (\/ ~voicePool[i].active /\ isDone(voicePool[i].env)
                  /\ i \in Inactive(voicePool)
             \/ voicePool[i].active /\ ~voicePool[i].releasing)
  /\ [](\A i \in VoiceIds : voicePool[i].active <=> ~isDone(voicePool[i].env))
  /\ [][ \A i \in VoiceIds :
           (voicePool[i].active /\ ~voicePool[i].releasing /\ ProcessStep)
             => (voicePool'[i].active /\ ~voicePool'[i].releasing) ]_vars

\* The voice of NotePool[1] was released and has run to Idle: it is inactive,
\* while the voice of NotePool[2], never released, has reached Sustain.
C12_Witness ==
  \E i, j \in VoiceIds :
    /\ ~voicePool[i].active /\ voicePool[i].releasing
    /\ voicePool[i].midiNote = NotePool[1] /\ isDone(voicePool[i].env)
    /\ voicePool[j].active /\ ~voicePool[j].releasing
    /\ voicePool[j].midiNote = NotePool[2] /\ voicePool[j].env.state = "Sustain"

\* The step is the session handing one more note event to the engine.
NoteDispatched == Len(applied'["note"]) = Len(applied["note"]) + 1

\* C13: a note event with midiNote 0, NoteOn or NoteOff, is ignored: the
\* step that hands it to the engine leaves every voice and noteCount
\* unchanged.
C13_ZeroNoteIgnored ==
  [][ (NoteDispatched /\ applied'["note"][Len(applied'["note"])].midiNote = 0)
        => (voicePool' = voicePool /\ noteCount' = noteCount) ]_vars

\* The engine was handed a note-on for NotePool[1], then a note-on and a
\* note-off for note 0: one note-on is counted and one voice is active.
C13_Witness ==
  /\ applied["note"] = <<NoteEvent("NoteOn", NotePool[1]), NoteEvent("NoteOn", 0),
                         NoteEvent("NoteOff", 0)>>
  /\ noteCount = 1
  /\ ActiveCount(voicePool) = 1

(***************************************************************************)
(* Parameter events.                                                       *)
(***************************************************************************)
\* The step is the session handing one more parameter event to the engine.
ParamDispatched == Len(applied'["param"]) = Len(applied["param"]) + 1

TriggerStep == envCalls' = envCalls + 1 /\ envLast' = "trigger"
ReleaseStep == envCalls' = envCalls + 1 /\ envLast' = "release"
SampleStep == envSince' = envSince + 1

\* A sample in the stage `stage` of length stageSamples: the stage is left
\* for `next` exactly when the count of its samples reaches stageSamples.
StageEdge(stage, stageSamples, next) ==
  envelope.state = stage
    => IF envelope.samples + 1 >= stageSamples
       THEN envelope'.state = next /\ envelope'.samples = 0
       ELSE envelope'.state = stage /\ envelope'.samples = envelope.samples + 1

\* C15: the envelope starts in Idle; noteOn moves any state to Attack with
\* no sample counted; Attack moves to Decay, Decay to Sustain and Release to
\* Idle when the samples in the stage reach the stage's length; Sustain
\* persists under samples; noteOff moves any state to Release and sets the
\* release start level to the amplitude at that moment; nothing else changes
\* the state, and isDone() holds exactly in Idle.
C15_EnvelopeEdges ==
  /\ [][ /\ TriggerStep
            => envelope'.state = "Attack" /\ envelope'.samples = 0
         /\ ReleaseStep
            => /\ envelope'.state = "Release" /\ envelope'.samples = 0
               /\ envelope'.releaseStartLevel = getCurrentAmplitude(envelope)
         /\ SampleStep
            => /\ StageEdge("Attack", envelope.attackSamples, "Decay")
               /\ StageEdge("Decay", envelope.decaySamples, "Sustain")
               /\ StageEdge("Release", envelope.releaseSamples, "Idle")
               /\ envelope.state \in {"Sustain", "Idle"} => envelope' = envelope
               /\ envelope'.releaseStartLevel = envelope.releaseStartLevel ]_vars
  /\ []((envCalls = 0) => envelope.state = "Idle")
  /\ [](isDone(envelope) <=> envelope.state = "Idle")

\* An envelope with stages of two samples and sustain level 1/2 was
\* triggered, ran into Sustain, was released there and reached Idle with the
\* second sample of its release.
C15_Witness ==
  /\ envelope.attackSamples = 2 /\ envelope.decaySamples = 2
  /\ envelope.releaseSamples = 2 /\ envelope.sustainLevel = Frac(1, 2)
  /\ envCalls = 2 /\ envLast = "release" /\ envSince = 2
  /\ envelope.state = "Idle"
  /\ envelope.releaseStartLevel = Frac(1, 2)
  /\ envOut = Frac(1, 4)

\* C16: for an envelope with attack = decay = release = 0 samples and any
\* sustain level s, the first sample produced after noteOn has amplitude s,
\* and the amplitude produced after noteOff is 0 once one sample has passed.
C16_ZeroStages ==
  (/\ envelope.attackSamples = 0
   /\ envelope.decaySamples = 0
   /\ envelope.releaseSamples = 0)
    => /\ (envLast = "trigger" /\ envSince = 1) => envOut = envelope.sustainLevel
       /\ (envLast = "release" /\ envSince >= 2) => envOut = FracZero

(***************************************************************************)
(* Properties of the modulation matrix.                                    *)
(***************************************************************************)
AddStep == modOps'.adds = modOps.adds + 1
RemoveStep == modOps'.removes = modOps.removes + 1

\* C17: the route count stays within 0..16 under every sequence of
\* addRoute, removeRoute and clearRoutes; addRoute returns false exactly
\* when the count is 16 before the call and then leaves the matrix
\* unchanged; otherwise it stores the new route at index count, increments
\* count by one and leaves the earlier routes unchanged.
C17_RouteCapacity ==
  /\ [](matrix.count \in 0..16)
  /\ [][ AddStep
           => /\ (modCall'.ret = FALSE) <=> (matrix.count = 16)
              /\ (modCall'.ret = FALSE) => matrix' = matrix
              /\ (modCall'.ret = TRUE)
                   => /\ matrix'.count = matrix.count + 1
                      /\ matrix'.routes[matrix.count] = modCall'.arg
                      /\ \A k \in RouteIndices :
                           k < matrix.count
                             => matrix'.routes[k] = matrix.routes[k] ]_vars

\* Sixteen routes were added and the seventeenth addRoute was refused.
C17_Witness ==
  /\ modCall.op = "add" /\ modCall.ret = FALSE
  /\ matrix.count = 16
  /\ modOps = [adds |-> 17, removes |-> 0, clears |-> 0]
  /\ \A k \in RouteIndices : matrix.routes[k] # NoRoute

\* How many of the first n routes equal route.
RouteCount(routes, n, route) ==
  Cardinality({k \in RouteIndices : k < n /\ routes[k] = route})

\* C18: removeRoute(index) with index < count returns true, decreases count
\* by one and moves the last route to position index, so that the routes at
\* the indices below count are, as a multiset, those before the call minus
\* the route that was at index; with index >= count (an empty matrix
\* included) it returns false and leaves the matrix unchanged.
C18_RemoveRoute ==
  [][ RemoveStep
        => LET index == modCall'.arg
               last == matrix.count - 1
           IN IF index < matrix.count
              THEN /\ modCall'.ret = TRUE
                   /\ matrix'.count = last
                   /\ index < last => matrix'.routes[index] = matrix.routes[last]
                   /\ \A route \in {matrix.routes[k] : k \in RouteIndices} :
                        RouteCount(matrix'.routes, matrix'.count, route)
                          = RouteCount(matrix.routes, matrix.count, route)
                              - (IF route = matrix.routes[index] THEN 1 ELSE 0)
              ELSE /\ modCall'.ret = FALSE
                   /\ matrix' = matrix ]_vars

\* Of three routes the first was removed: the third took its place and the
\* last slot was cleared.
C18_Witness ==
  /\ modOps = [adds |-> 3, removes |-> 1, clears |-> 0]
  /\ modCall = [op |-> "remove", arg |-> 0, ret |-> TRUE]
  /\ matrix.count = 2
  /\ matrix.routes[0] = RouteOf(2) /\ matrix.routes[1] = RouteOf(1)
  /\ matrix.routes[2] = NoRoute


\* A step that ends a block.
BlockEndStep == modBlk.pc = "frames" /\ modBlk'.pc = "idle"

C20_ReadTableBounds ==
  wtRead # NoRead =>
    /\ wtRead.reads = {wtRead.iA, wtRead.iB}
    /\ wtRead.iA \in 0..2047
    /\ wtRead.iB \in 0..2047
    /\ wtRead.iB = IF wtRead.iA = 2047 THEN 0 ELSE wtRead.iA + 1
    /\ wtRead.frac >= 0
    /\ wtRead.frac < 2 ^ 21
    /\ wtRead.phase = ToBits(wtRead.frac, 21) \o ToBits(wtRead.iA, 11)

\* A read at the last table position with the largest fraction wrapped the
\* second index to 0.
C20_Witness ==
  /\ wtRead # NoRead
  /\ wtRead.iA = 2047
  /\ wtRead.iB = 0
  /\ wtRead.frac = 2 ^ 21 - 1

\* C21: after n per-sample advances from start phase p0 the phase is
\* (p0 + n * r) mod 2^32, where r = round(inc / 2048 * 2^32) is the
\* fixed-point increment, and r fits in 32 bits.
C21_PhaseAccumulation ==
  LET r == RoundedPhaseInc(osc.inc)
  IN osc.n > 0 =>
       /\ r[1] < TABLE_SIZE
       /\ wtPhase = AddTimes(osc.p0, Phase(r[1] % TABLE_SIZE, r[2]), osc.n)

\* A createWavetableBank call.
CreateStep == bankCall'.creates = bankCall.creates + 1

RegisterWhenFull ==
  /\ bankCall'.registers = bankCall.registers + 1
  /\ bankReg.count = 32

\* C23: a registry never holds more than 32 banks, and a registration at
\* 32 banks returns a failure to the caller and changes neither the
\* registry's content nor its count.
C23_RegistryFull ==
  /\ [](bankReg.count <= 32)
  /\ [][RegisterWhenFull =>
          /\ bankCall'.ret = "failure"
          /\ bankReg' = bankReg]_vars

\* A process call, with or without modulation values.
FilterProcessStep == filtCall'.calls = filtCall.calls + 1

\* C24: a process call on a disabled filter, with or without modulation
\* values, returns its input and leaves the voice states and the cached
\* coefficients as they were.
C24_DisabledBypass ==
  [][(FilterProcessStep /\ ~filt.enabled) =>
       /\ filtCall'.out = [filtered |-> FALSE, input |-> filtCall'.input]
       /\ filt'.voiceStates = filt.voiceStates
       /\ filt'.coeffs = filt.coeffs
       /\ filt' = filt]_vars

\* A disabled filter returned input 2 of a modulated call made after a
\* sample had gone through it while it was enabled.
C24_Witness ==
  /\ ~filt.enabled
  /\ filtCall.op = "processMod"
  /\ filtCall.calls = 2
  /\ filtCall.out = [filtered |-> FALSE, input |-> 2]
  /\ filtCall.cutoffHz = Hz(30000)
  /\ \E v \in ModVoices : filt.voiceStates[v] = 1

\* C25: in a modulated process call on an enabled filter, state-variable
\* or ladder, the coefficient is computed from the cutoff clamped to
\* [20, 0.45 * sampleRate].
C25_ModulatedClamp ==
  [][(FilterProcessStep /\ filt.enabled /\ filtCall'.op = "processMod"
        /\ filtCall'.cutoffHz \notin (filt.cutoff - 1)..(filt.cutoff + 1)) =>
       filtCall'.used.cutoff =
         IF filtCall'.cutoffHz < 20000 THEN 20000
         ELSE IF filtCall'.cutoffHz > 21600000 THEN 21600000
         ELSE filtCall'.cutoffHz]_vars

\* C26: a parameter event (id, v) with a bound id and v in [0, 1], handed
\* to the engine, writes min + v * (max - min) of the id's binding to the
\* bound field: min for v = 0 and max for v = 1.
C26_Denormalized ==
  [][ParamDispatched =>
       LET event == applied'["param"][Len(applied'["param"])]
       IN event.id < PARAM_COUNT =>
            param'[event.id] = ParamRange(event.id).min
                                 + event.value * (ParamRange(event.id).max
                                                    - ParamRange(event.id).min)]_vars

\* The step is the first audio block after the parameter event
\* (MASTER_GAIN, 0) and then a note-on were applied.
SilencedBlockStep ==
  /\ appliedLog' = Append(appliedLog, "block")
  /\ Len(appliedLog) >= 2
  /\ appliedLog[Len(appliedLog) - 1] = "param"
  /\ appliedLog[Len(appliedLog)] = "note"
  /\ applied["param"][Len(applied["param"])] = [id |-> MASTER_GAIN, value |-> 0]
  /\ applied["note"][Len(applied["note"])].type = "NoteOn"

\* C27: after the parameter event (MASTER_GAIN, 0) followed by a note-on,
\* every frame of every channel the next audio block writes is 0, whatever
\* voices are active.
C27_MasterGainSilence ==
  [][SilencedBlockStep =>
       \A ch \in DOMAIN audioOut' :
         \A frame \in 1..Len(audioOut'[ch]) : audioOut'[ch][frame] = 0]_vars

\* The note events among a sequence of decoded events.
IsNote(event) == event.type \in {"NoteOn", "NoteOff"}

\* C28: a message with status 0x9n is dispatched as NoteOff when its
\* velocity byte is 0 and as NoteOn otherwise, a message with status 0x8n
\* always as NoteOff; and the note events pushed to the note queue are
\* exactly the decoded NoteOn and NoteOff events, in order, with note =
\* data1 and velocity = data2.
C28_MidiNotes ==
  /\ (Len(midiIO.packet) = 3 /\ midiIO.packet[1] \div 16 = 9) =>
       /\ Len(midiIO.dispatched) = 1
       /\ midiIO.dispatched[1].type =
            IF midiIO.packet[3] = 0 THEN "NoteOff" ELSE "NoteOn"
       /\ midiIO.dispatched[1].data1 = midiIO.packet[2]
       /\ midiIO.dispatched[1].data2 = midiIO.packet[3]
  /\ (Len(midiIO.packet) = 3 /\ midiIO.packet[1] \div 16 = 8) =>
       /\ Len(midiIO.dispatched) = 1
       /\ midiIO.dispatched[1].type = "NoteOff"
  /\ \A k \in 1..Len(midiIO.dispatched) :
       midiIO.dispatched[k].type = "NoteOn" => midiIO.dispatched[k].data2 > 0
  /\ Len(midiIO.pushed) = Len(SelectSeq(midiIO.dispatched, IsNote))
  /\ \A k \in 1..Len(midiIO.pushed) :
       LET event == SelectSeq(midiIO.dispatched, IsNote)[k]
       IN midiIO.pushed[k] = [type |-> event.type, midiNote |-> event.data1,
                              velocity |-> event.data2]

\* Channel 1 sent note-on 60 with velocity 0: one NoteOff was pushed.
C28_Witness ==
  /\ midiIO.packet = <<145, 60, 0>>
  /\ midiIO.dispatched = <<[type |-> "NoteOff", channel |-> 1, data1 |-> 60, data2 |-> 0]>>
  /\ midiIO.pushed = <<[type |-> "NoteOff", midiNote |-> 60, velocity |-> 0]>>

\* In the log of shutdown steps, every step b comes after a step a.
Before(a, b) ==
  \A j \in 1..Len(shut.log) :
    shut.log[j] = b => \E i \in 1..(j - 1) : shut.log[i] = a

\* C29: at shutdown the audio session is stopped first, then the input
\* session (key capture and MIDI session), then the engine is destroyed; and
\* no callback touches the engine once its destruction has begun.
C29_ShutdownOrder ==
  /\ Before("stopSession", "stopKeyCapture")
  /\ Before("stopSession", "stopMidiSession")
  /\ Before("stopKeyCapture", "destroyEngine")
  /\ Before("stopSession", "destroyEngine")
  /\ ~shut.late

\* A sample in the stage `stage` whose length is zero samples: the sample
\* has amplitude 1 and the envelope is in `next`, at sample 0, after it.
ZeroStage(stage, stageSamples, next) ==
  (envelope.state = stage /\ stageSamples = 0)
    => /\ envOut' = FracOne
       /\ envelope'.state = next
       /\ envelope'.samples = 0

\* C30: a stage (attack, decay or release) of zero samples outputs
\* amplitude 1 and completes after exactly one sample: the sample that
\* produces the 1 also moves the envelope to the next state.
C30_ZeroLengthStage ==
  [][SampleStep
       => /\ ZeroStage("Attack", envelope.attackSamples, "Decay")
          /\ ZeroStage("Decay", envelope.decaySamples, "Sustain")
          /\ ZeroStage("Release", envelope.releaseSamples, "Idle")]_vars

\* An envelope with a release of zero samples and sustain level 1/2 was
\* triggered, ran into Sustain and was released there: the one sample after
\* the release had amplitude 1 and left the envelope in Idle.
C30_Witness ==
  /\ envelope.releaseSamples = 0 /\ envelope.sustainLevel = Frac(1, 2)
  /\ envelope.releaseStartLevel = Frac(1, 2)
  /\ envLast = "release" /\ envSince = 1
  /\ envOut = FracOne
  /\ envelope.state = "Idle"

SetterStep == envSet'.calls = envSet.calls + 1

\* The value of a setter call is invalid: a negative time or sample rate, a
\* sustain level outside [0, 1].
InvalidValue(call) ==
  IF call.op = "setSustain"
  THEN call.level[1] < 0 \/ call.level[1] > call.level[2]
  ELSE call.ms < 0

\* C31: a setter called with an invalid value signals an error and leaves
\* the envelope's parameters, stage sample counts and state unchanged; a
\* setter called with a valid value leaves every stage sample count >= 0.
C31_ValidatingSetters ==
  [][SetterStep =>
       IF InvalidValue(envSet'.call)
       THEN envSet'.call.threw /\ envSet'.env = envSet.env
       ELSE /\ envSet'.env.attackSamples >= 0
            /\ envSet'.env.decaySamples >= 0
            /\ envSet'.env.releaseSamples >= 0]_vars

\* The modulated values of a call differ from the cached ones by more than
\* 0.001.
DiffersFromCached(f, call) ==
  \/ call.cutoffHz \notin (f.cutoff - 1)..(f.cutoff + 1)
  \/ call.resonance \notin (f.resonance - 10)..(f.resonance + 10)

\* Coefficients computed from the modulated values of a call: from its
\* cutoff, as passed or clamped to the cutoff range, and, for the
\* state-variable filter, from its resonance.
FromModulated(f, call) ==
  /\ call.used.cutoff \in {call.cutoffHz, clamp(call.cutoffHz, 20000, 21600000)}
  /\ f.kind = "svf" => call.used.resonance = call.resonance

\* C32: a modulated process call on an enabled filter leaves the cached
\* coefficients, cutoff and resonance unchanged; it filters the sample with
\* coefficients recomputed from the modulated values when the modulated
\* cutoff or resonance differs from the cached one by more than 0.001, and
\* with the cached coefficients otherwise.
C32_ModulatedRecompute ==
  [][(FilterProcessStep /\ filt.enabled /\ filtCall'.op = "processMod") =>
       /\ filt'.coeffs = filt.coeffs
       /\ filt'.cutoff = filt.cutoff
       /\ filt'.resonance = filt.resonance
       /\ IF DiffersFromCached(filt, filtCall')
          THEN FromModulated(filt, filtCall')
          ELSE filtCall'.used = filt.coeffs]_vars

\* C33: a read of an enabled oscillator indexes only existing tables: mip
\* A = floor(mip) and mip B = A + 1 with 0 <= A < B <= 10; with two or more
\* frames, frame A <= frameCount - 2 and frame B = A + 1 <= frameCount - 1;
\* with one frame only frame 0.
C33_TablesExist ==
  (mipRead.reads > 0 /\ mipRead.enabled) =>
    /\ \A t \in mipRead.read.tables :
         t[1] \in 0..(mipRead.frameCount - 1) /\ t[2] \in 0..10
    /\ \E A \in 0..9 :
         /\ mipRead.read.mips = {A, A + 1}
         /\ A * 1000000 <= mipRead.mipF /\ mipRead.mipF < (A + 1) * 1000000
    /\ mipRead.frameCount >= 2 =>
         \E A \in 0..(mipRead.frameCount - 2) : mipRead.read.frames = {A, A + 1}
    /\ mipRead.frameCount = 1 => mipRead.read.frames = {0}
    /\ mipRead.read.tables = mipRead.read.frames \X mipRead.read.mips

\* An infinite phase increment at scan position 1 in a bank of 256 frames:
\* mips 9 and 10 of frames 254 and 255 were read.
C33_Witness ==
  /\ mipRead.enabled
  /\ mipRead.inc.exp = 128
  /\ mipRead.scan = ScanSteps
  /\ mipRead.frameCount = 256
  /\ mipRead.read.mips = {9, 10}
  /\ mipRead.read.frames = {254, 255}

\* The note event the step hands to the engine.
DispatchedNote == applied'["note"][Len(applied'["note"])]

\* C34: every note-on that initializes a voice stamps it with an age greater
\* than every age stamped before (the ages of the active voices are below
\* noteCount, the new stamp is noteCount, and noteCount never decreases), so
\* the ages of the active voices are pairwise distinct; note-offs and
\* ignored events (midiNote 0) leave noteCount unchanged.
C34_AgeStamps ==
  /\ [](\A i \in VoiceIds : voicePool[i].active => voicePool[i].age < noteCount)
  /\ [](\A i, j \in VoiceIds :
          (i # j /\ voicePool[i].active /\ voicePool[j].active)
            => voicePool[i].age # voicePool[j].age)
  /\ [][noteCount' >= noteCount]_vars
  /\ [][NoteDispatched =>
          IF DispatchedNote.type = "NoteOn" /\ DispatchedNote.midiNote # 0
          THEN /\ noteCount' = noteCount + 1
               /\ \E i \in VoiceIds :
                    /\ Taken = {i}
                    /\ voicePool'[i].active
                    /\ voicePool'[i].age = noteCount
                    /\ \A j \in VoiceIds :
                         voicePool[j].active => voicePool[j].age < voicePool'[i].age
          ELSE noteCount' = noteCount]_vars

\* NotePool[1] was played, released and played again: two voices are active
\* with that note, the releasing one stamped 0 and the new one stamped 1.
C34_Witness ==
  /\ applied["note"] = <<NoteEvent("NoteOn", NotePool[1]), NoteEvent("NoteOff", NotePool[1]),
                         NoteEvent("NoteOn", NotePool[1])>>
  /\ noteCount = 2
  /\ \E i, j \in VoiceIds :
       /\ voicePool[i].active /\ voicePool[i].releasing /\ voicePool[i].age = 0
       /\ voicePool[j].active /\ ~voicePool[j].releasing /\ voicePool[j].age = 1

ClearStep == modOps'.clears = modOps.clears + 1

\* C35: from a cleared matrix, after any sequence of addRoute, removeRoute
\* and clearRoutes every slot at an index >= count holds the empty route
\* (NoSrc, NoDest, amount 0), and clearRoutes leaves count = 0 with all 16
\* slots empty.
C35_EmptySlots ==
  /\ [](\A k \in 0..15 :
          k >= matrix.count =>
            matrix.routes[k] = [src |-> "NoSrc", dest |-> "NoDest", amount |-> 0])
  /\ [][ClearStep =>
          /\ matrix'.count = 0
          /\ DOMAIN matrix'.routes = 0..15
          /\ \A k \in 0..15 :
               matrix'.routes[k] = [src |-> "NoSrc", dest |-> "NoDest", amount |-> 0]]_vars

\* A full matrix lost one route to removeRoute and was then cleared.
C35_Witness ==
  /\ modCall.op = "clear"
  /\ modOps = [adds |-> 16, removes |-> 1, clears |-> 1]
  /\ matrix.count = 0

\* C36: after any sequence of note-ons, note-offs and processed samples
\* the number of active voices is at most the pool's capacity, and no two
\* active voices that are not releasing hold the same MIDI note.
C36_PoolBounds ==
  /\ DOMAIN voicePool = 1..MAX_VOICES
  /\ Cardinality({i \in DOMAIN voicePool : voicePool[i].active}) <= MAX_VOICES
  /\ \A i, j \in DOMAIN voicePool :
       (/\ i # j
        /\ voicePool[i].active /\ ~voicePool[i].releasing
        /\ voicePool[j].active /\ ~voicePool[j].releasing)
         => voicePool[i].midiNote # voicePool[j].midiNote

\* NotePool[1] was played twice and NotePool[2] once: the second note-on
\* retriggered the voice of the first, so two voices are active, stamped 1
\* and 2.
C36_Witness ==
  /\ noteCount = 3
  /\ ActiveCount(voicePool) = 2
  /\ \E i, j \in VoiceIds :
       /\ voicePool[i].active /\ ~voicePool[i].releasing
       /\ voicePool[i].midiNote = NotePool[1] /\ voicePool[i].age = 1
       /\ voicePool[j].active /\ ~voicePool[j].releasing
       /\ voicePool[j].midiNote = NotePool[2] /\ voicePool[j].age = 2

\* The bytes consumed by the first k iterations of the parsing loop.
RECURSIVE ConsumedBy(_, _)
ConsumedBy(steps, k) ==
  IF k = 0 THEN 0 ELSE ConsumedBy(steps, k - 1) + steps[k].consumed

\* C37: for every packet parseAndDispatch terminates: every iteration
\* starts where the one before stopped and consumes at least one byte, or
\* returns; no offset read is at or beyond the packet length; a message cut
\* off by the end of the packet ends the parsing without a dispatch; a
\* real-time status byte 0xF8..0xFF is skipped without a dispatch.
C37_ParserBounds ==
  LET steps == midiIO.steps
      packet == midiIO.packet
  IN /\ Len(steps) <= Len(packet)
     /\ Len(SelectSeq(steps, LAMBDA s : s.dispatched)) = Len(midiIO.dispatched)
     /\ \A k \in 1..Len(steps) :
          /\ steps[k].offset = ConsumedBy(steps, k - 1)
          /\ steps[k].status = packet[steps[k].offset + 1]
          /\ steps[k].consumed >= 1 \/ steps[k].returned
          /\ \A at \in steps[k].reads : at >= 0 /\ at < Len(packet)
          /\ steps[k].returned =>
               /\ k = Len(steps)
               /\ ~steps[k].dispatched
               /\ steps[k].offset + messageLength(BitAnd(steps[k].status, 240))
                    > Len(packet)
          /\ steps[k].status >= 248 =>
               ~steps[k].dispatched /\ steps[k].consumed = 1
     /\ (steps # <<>> /\ ~steps[Len(steps)].returned) =>
          ConsumedBy(steps, Len(steps)) = Len(packet)

\* A real-time byte, a complete program change and a note-on cut off after
\* its note byte: one event is dispatched and the parsing returns.
C37_Witness ==
  /\ midiIO.packet = <<248, 192, 60, 144>>
  /\ Len(midiIO.steps) = 3
  /\ midiIO.steps[3].returned
  /\ Len(midiIO.dispatched) = 1

\* C38: after any sequence of connectMidiSource, disconnectMidiSource and
\* disconnectAllMidiSources the count of connected sources is at most
\* MAX_CONNECTED_SOURCES, every entry below the count is active, every
\* entry from the count on is inactive with endpoint 0, and nothing was
\* written outside the array.
C38_ConnectedSources ==
  /\ midiSrc.connectedSourceCount <= MAX_CONNECTED_SOURCES
  /\ \A i \in 0..(MAX_CONNECTED_SOURCES - 1) :
       IF i < midiSrc.connectedSourceCount
       THEN midiSrc.connectedSources[i].active
       ELSE /\ ~midiSrc.connectedSources[i].active
            /\ midiSrc.connectedSources[i].endpoint = 0
  /\ ~midiSrc.outside

\* C39: for every sequence of key-down and key-up events, octave shifts
\* with z and x while note keys are held included, the NoteOff pushed at
\* the release of a note key carries the note of the NoteOn pushed when the
\* key went down, and every note pushed is 0 or within 1..127.
C39_KeyNotes ==
  \A k \in 1..Len(keys.pushed) :
    LET event == keys.pushed[k]
    IN /\ event.midiNote = 0 \/ event.midiNote \in 1..127
       /\ (event.type = "NoteOff" /\ event.character \in DOMAIN KeyNotes) =>
            event.midiNote = event.onNote

\* The banks registered so far whose name is the name looked up.
Matching(name) ==
  {i \in 0..(bankReg.count - 1) : bankReg.slots[i].name = name}

====
